---------------------------- MODULE Spec2Model ----------------------------
(***************************************************************************)
(* A model of the agent orchestration core of rustclaw:                    *)
(*   - the confirmation gate of the built-in shell tool                    *)
(*     (crates/rustclaw-channel/src/lib.rs, BashTool::execute);            *)
(*   - the file tools of the same crate (read_file, list_dir, write_file); *)
(*   - the agentic tool-calling loop                                       *)
(*     (crates/rustclaw-provider/src/lib.rs, complete_agentic);            *)
(*   - the concurrent startup of the MCP servers                           *)
(*     (crates/rustclaw-mcp/src/registry.rs, MCPToolRegistry::start_all);  *)
(*   - the remote tools in use: call_tool, the bridged tools and their     *)
(*     registration (crates/rustclaw-mcp/src/client.rs, tool_bridge.rs,    *)
(*     registry.rs; crates/rustclaw-gateway/src/service.rs);               *)
(*   - the transport of a server                                           *)
(*     (crates/rustclaw-mcp/src/config.rs, detect_transport);              *)
(*   - the context manager                                                 *)
(*     (crates/rustclaw-provider/src/context.rs, ContextManager).          *)
(* Rust strings are modelled as sequences of one-character strings, so     *)
(* that str::contains and str::trim are computed, not assumed.             *)
(***************************************************************************)
EXTENDS Integers, Sequences, FiniteSets, TLC

VARIABLES
    bash_call,      \* Option<args>: the arguments of the latest BashTool::execute call
    bash_result,    \* Option<Result<Value>>: what that call returned
    spawn_count     \* number of Command::new("bash")...output() invocations so far

VARIABLES
    file_call,    \* Option: the tool and arguments of the latest call of a file tool
    file_result,  \* Option<Result<Value>>: what that call returned
    file_effect   \* Option: the filesystem operation that call performed

VARIABLES
    pc,               \* complete_agentic: "idle", "running" (at the head of the loop),
                      \* "awaiting" (completion call in flight), "returned"
    max_iterations,   \* its argument
    messages,         \* its argument: the earlier messages
    prompt,           \* its argument
    iteration,        \* the loop counter
    tool_results,     \* Option<Vec<ToolResult>>: results staged for the next call
    last_tool_output, \* Option<String>
    ret,              \* Option<Result<String>>: the value returned
    responses,        \* the kinds of the endpoint's answers so far, one per completion call
    last_response,    \* Option: the latest answer of the endpoint
    request,          \* Option: the messages of the completion call in flight
    tool_execs        \* number of execute_call invocations so far

VARIABLES
    mcp_pc,      \* MCPToolRegistry::start_all: "idle", "spawning", "joining", "returned"
    mcp_config,  \* its argument, an MCPConfig
    tasks,       \* the startup task of each configured server
    clients      \* registry.clients: HashMap<String, MCPClient>

VARIABLES
    registry_state,   \* the MCPToolRegistry value: "none", "alive", "dropped"
    open_connections, \* the servers whose process or session is still held open
    bridged,          \* Vec<Box<dyn ToolFunction>> of to_tool_functions, not yet registered
    tool_registry,    \* ToolRegistry.tools of the provider service: name -> tool
    in_flight,        \* Option: the call whose request is with a server
    call_result       \* Option: the latest call that returned

VARIABLES
    read_guards,        \* the read guards held on registry.clients: caller -> the path it took
    read_waiting,       \* the callers whose clients.read().await has not returned
    server_count_seen   \* Option<usize>: what the latest server_count call returned

VARIABLES
    start_config,         \* Option: the descriptor MCPClient::start was called with
    start_transport_type, \* Option<TransportType>: what detect_transport made of it
    start_attempts,       \* the processes spawned and sessions opened for it
    start_outcome         \* Option<Result>: how the attempt ended

VARIABLES
    turns,         \* ContextManager.turns
    summaries,     \* ContextManager.summaries
    strategy,      \* ContextManager.strategy
    max_tokens,    \* ContextManager.max_tokens
    recent_turns,  \* ContextManager.recent_turns
    total_tokens,  \* ContextManager.total_tokens
    next_id,       \* the next fresh turn or summary id (Uuid::new_v4)
    ctx_system_prompt, \* ContextManager.system_prompt
    got_messages,  \* Option<Vec<ChatMessage>>: what the latest get_messages call returned
    messages_calls \* number of get_messages calls so far

file_vars == <<file_call, file_result, file_effect>>
bash_vars == <<bash_call, bash_result, spawn_count, file_vars>>
tool_vars ==
    <<registry_state, open_connections, bridged, tool_registry, in_flight, call_result>>
transport_vars == <<start_config, start_transport_type, start_attempts, start_outcome>>
lock_vars == <<read_guards, read_waiting, server_count_seen>>
mcp_vars == <<mcp_pc, mcp_config, tasks, clients, tool_vars, transport_vars, lock_vars>>
context_vars ==
    <<turns, summaries, strategy, max_tokens, recent_turns, total_tokens, next_id,
      ctx_system_prompt, got_messages, messages_calls>>
agentic_vars ==
    <<pc, max_iterations, messages, prompt, iteration, tool_results, last_tool_output,
      ret, responses, last_response, request, tool_execs>>
vars == <<bash_vars, agentic_vars, mcp_vars, context_vars>>

-----------------------------------------------------------------------------
(* Option<T> is a sequence of length at most one.                          *)
None == <<>>
Some(x) == <<x>>
IsSome(o) == o /= <<>>
Unwrap(o) == o[1]

\* Option<Result<String>>: the value a finished call returned
Ok(value) == Some([ok |-> TRUE, value |-> value])
Err(value) == Some([ok |-> FALSE, value |-> value])

-----------------------------------------------------------------------------
(* Strings                                                                 *)

\* char::is_whitespace, restricted to the characters the model uses
Whitespace == {" ", "\t", "\n"}

RECURSIVE TrimStart(_)
TrimStart(s) ==
    IF s /= <<>> /\ Head(s) \in Whitespace THEN TrimStart(Tail(s)) ELSE s

RECURSIVE TrimEnd(_)
TrimEnd(s) ==
    IF s /= <<>> /\ s[Len(s)] \in Whitespace
    THEN TrimEnd(SubSeq(s, 1, Len(s) - 1))
    ELSE s

\* str::trim
Trim(s) == TrimEnd(TrimStart(s))

\* str::contains(&str): pat occurs in s as a contiguous substring
Contains(s, pat) ==
    \E i \in 1..(Len(s) - Len(pat) + 1) : SubSeq(s, i, i + Len(pat) - 1) = pat

\* `for pattern in patterns { if command.contains(pattern) { return ... } }`:
\* the first pattern of the list, in list order, that the command contains
FirstMatch(command, patterns) ==
    LET hits == {i \in 1..Len(patterns) : Contains(command, patterns[i])}
    IN  IF hits = {} THEN None
        ELSE Some(patterns[CHOOSE i \in hits : \A j \in hits : i <= j])

-----------------------------------------------------------------------------
(* The shell tool: crates/rustclaw-channel/src/lib.rs                      *)

\* Bound on the processes spawned in one behaviour
MaxSpawns == 2

SENSITIVE_PATTERNS ==
    <<
       <<".","s","s","h","/">>,   \* .ssh/
       <<"i","d","_","r","s","a">>,   \* id_rsa
       <<"i","d","_","e","d","2","5","5","1","9">>,   \* id_ed25519
       <<".","p","e","m">>,   \* .pem
       <<".","k","e","y">>,   \* .key
       <<".","p","g","p">>,   \* .pgp
       <<".","g","n","u","p","g">>,   \* .gnupg
       <<"c","r","e","d","e","n","t","i","a","l","s">>,   \* credentials
       <<"s","e","c","r","e","t","s">>,   \* secrets
       <<".","e","n","v">>,   \* .env
       <<"p","a","s","s","w","o","r","d">>,   \* password
       <<"t","o","k","e","n">>,   \* token
       <<"a","p","i","_","k","e","y">>,   \* api_key
       <<"a","p","i","k","e","y">>,   \* apikey
       <<".","a","w","s","/">>,   \* .aws/
       <<".","k","u","b","e","/">>,   \* .kube/
       <<".","d","o","c","k","e","r","/">>    \* .docker/
    >>

dangerous ==
    <<
       <<"r","m"," ","-","r","f"," ","/">>,   \* rm -rf /
       <<"s","u","d","o"," ">>,   \* sudo 
       <<"s","u","d","o","\t">>,   \* sudo\t
       <<"m","k","f","s">>,   \* mkfs
       <<"d","d"," ","i","f","=">>,   \* dd if=
       <<">"," ","/","d","e","v","/","s","d">>,   \* > /dev/sd
       <<":","(",")","{"," ",":","|",":","&"," ","}",";",":">>    \* :(){ :|:& };:
    >>

destructive_patterns ==
    <<
       <<"r","m"," ">>,   \* rm 
       <<"r","m"," ","-">>,   \* rm -
       <<"r","m","d","i","r">>,   \* rmdir
       <<"d","e","l"," ">>,   \* del 
       <<"f","o","r","m","a","t"," ">>,   \* format 
       <<"s","h","r","e","d"," ">>    \* shred 
    >>

\* The commands the model calls the tool with: every combination of
\* blocked / sensitive / destructive, and near misses ("sudo" without the
\* trailing blank, upper-case ".SSH/", "rm " inside "perform x").
Commands ==
    {
       <<"l","s"," ","-","l","a">>,   \* ls -la
       <<"c","a","t"," ",".","s","s","h","/","i","d","_","r","s","a">>,   \* cat .ssh/id_rsa
       <<"r","m"," ","n","o","t","e","s">>,   \* rm notes
       <<"r","m"," ",".","e","n","v">>,   \* rm .env
       <<"r","m"," ","-","r","f"," ","/">>,   \* rm -rf /
       <<"s","u","d","o"," ","l","s">>,   \* sudo ls
       <<"s","u","d","o"," ","c","a","t"," ",".","p","e","m">>,   \* sudo cat .pem
       <<"s","u","d","o"," ","r","m"," ",".","k","e","y">>,   \* sudo rm .key
       <<"s","u","d","o">>,   \* sudo
       <<"c","a","t"," ",".","S","S","H","/","I","D">>,   \* cat .SSH/ID
       <<"r","m","d","i","r"," ","d">>,   \* rmdir d
       <<"e","c","h","o"," ","t","o","k","e","n">>,   \* echo token
       <<"m","k","f","s">>,   \* mkfs
       <<"f","o","r","m","a","t">>,   \* format
       <<"p","e","r","f","o","r","m"," ","x">>,   \* perform x
       <<"s","h","r","e","d"," ",".","a","w","s","/","c">>    \* shred .aws/c
    }

\* A JSON value given for a confirm_* key: absent, the booleans, or a value
\* that is not a boolean (the string "true")
JsonFlag == {"absent", "true", "false", "\"true\""}

\* args.get(key).and_then(|c| c.as_bool()).unwrap_or(false)
AsBoolOrFalse(v) == v = "true"

\* The arguments object of one call; command = None models a call without a
\* string "command" key.
BashArgs ==
    [command : {None} \cup {Some(c) : c \in Commands},
     confirm_sensitive : JsonFlag,
     confirm_destructive : JsonFlag]

\* What the process does once Command::output() is invoked
ProcessOutcomes == {"exit_0", "exit_1", "spawn_error"}

\* lines 376-386: the always-blocked check
BlockedRefusal(command) ==
    LET hit == FirstMatch(command, dangerous)
    IN  IF IsSome(hit)
        THEN Some([success |-> FALSE, blocked |-> TRUE, error |-> Trim(Unwrap(hit))])
        ELSE None

\* the sensitive check with its flag test inverted
SensitiveRefusal_FlagInverted(command, confirm_sensitive) ==
    LET hit == FirstMatch(command, SENSITIVE_PATTERNS)
    IN  IF confirm_sensitive /\ IsSome(hit)
        THEN Some([success |-> FALSE, needs_confirmation |-> TRUE,
                   confirmation_type |-> "sensitive_file", error |-> Unwrap(hit)])
        ELSE None

\* the sensitive check refusing whatever the flag says
SensitiveRefusal_IgnoresFlag(command, confirm_sensitive) ==
    LET hit == FirstMatch(command, SENSITIVE_PATTERNS)
    IN  IF IsSome(hit)
        THEN Some([success |-> FALSE, needs_confirmation |-> TRUE,
                   confirmation_type |-> "sensitive_file", error |-> Unwrap(hit)])
        ELSE None

\* lines 388-403: the sensitive-access check
SensitiveRefusal(command, confirm_sensitive) ==
    LET hit == FirstMatch(command, SENSITIVE_PATTERNS)
    IN  IF ~confirm_sensitive /\ IsSome(hit)
        THEN Some([success |-> FALSE, needs_confirmation |-> TRUE,
                   confirmation_type |-> "sensitive_file", error |-> Unwrap(hit)])
        ELSE None

\* the destructive check left out
DestructiveRefusal_Skipped(command, confirm_destructive) == None

\* lines 405-421: the destructive check
DestructiveRefusal(command, confirm_destructive) ==
    LET hit == FirstMatch(command, destructive_patterns)
    IN  IF ~confirm_destructive /\ IsSome(hit)
        THEN Some([success |-> FALSE, needs_confirmation |-> TRUE,
                   confirmation_type |-> "destructive", error |-> command])
        ELSE None

\* the blocked check made overridable by the two confirmations
BashGate_BlockedOverridable(command, confirm_sensitive, confirm_destructive) ==
    IF IsSome(BlockedRefusal(command)) /\ ~(confirm_sensitive /\ confirm_destructive)
    THEN BlockedRefusal(command)
    ELSE IF IsSome(SensitiveRefusal(command, confirm_sensitive))
         THEN SensitiveRefusal(command, confirm_sensitive)
    ELSE DestructiveRefusal(command, confirm_destructive)

\* one confirmation flag accepted by both gates
BashGate_SharedFlag(command, confirm_sensitive, confirm_destructive) ==
    LET confirmed == confirm_sensitive \/ confirm_destructive
    IN  IF IsSome(BlockedRefusal(command)) THEN BlockedRefusal(command)
        ELSE IF IsSome(SensitiveRefusal(command, confirmed))
             THEN SensitiveRefusal(command, confirmed)
        ELSE DestructiveRefusal(command, confirmed)

\* lines 376-421: the three checks in the order of the code; the first
\* refusal is returned, None means the command goes on to be executed
BashGate(command, confirm_sensitive, confirm_destructive) ==
    IF IsSome(BlockedRefusal(command)) THEN BlockedRefusal(command)
    ELSE IF IsSome(SensitiveRefusal(command, confirm_sensitive))
         THEN SensitiveRefusal(command, confirm_sensitive)
    ELSE DestructiveRefusal(command, confirm_destructive)

\* lines 429-457: the value built from the outcome of Command::output().
\* The captured stdout/stderr text (and its truncation to 15000 bytes) is
\* left out; the "timeout" argument is read at lines 360-364 and never used.
BashOutput(outcome) ==
    CASE outcome = "exit_0" -> [success |-> TRUE, exit_code |-> 0]
      [] outcome = "exit_1" -> [success |-> FALSE, exit_code |-> 1]
      [] outcome = "spawn_error" ->
            [success |-> FALSE, error |-> "Failed to execute command"]

\* BashGate on every command and pair of flags of the model, computed once
GateOf ==
    [command \in Commands |->
        [confirm_sensitive \in BOOLEAN |->
            [confirm_destructive \in BOOLEAN |->
                BashGate(command, confirm_sensitive, confirm_destructive)]]]

\* the result is a needs_confirmation refusal
Refused(result) ==
    /\ result.ok
    /\ "needs_confirmation" \in DOMAIN result.value
    /\ result.value.needs_confirmation

\* BashTool::execute, lines 354-458
BashTool_execute(args) ==
    /\ spawn_count < MaxSpawns
    /\ UNCHANGED <<file_vars, agentic_vars, mcp_vars, context_vars>>
    /\ bash_call' = Some(args)
    /\ IF args.command = None
       THEN \* line 358: Err("Missing 'command' argument")
            /\ bash_result' = Some([ok |-> FALSE, value |-> "Missing 'command' argument"])
            /\ UNCHANGED spawn_count
       ELSE LET command == Unwrap(args.command)
                refusal == GateOf[command][AsBoolOrFalse(args.confirm_sensitive)]
                                          [AsBoolOrFalse(args.confirm_destructive)]
            IN  IF IsSome(refusal)
                THEN /\ bash_result' = Some([ok |-> TRUE, value |-> Unwrap(refusal)])
                     /\ UNCHANGED spawn_count
                ELSE \* lines 424-457: the process is spawned
                     /\ spawn_count' = spawn_count + 1
                     /\ \E outcome \in ProcessOutcomes :
                            bash_result' = Some([ok |-> TRUE, value |-> BashOutput(outcome)])

-----------------------------------------------------------------------------
(* The file tools: ReadFileTool, ListDirTool and WriteFileTool             *)
(* (crates/rustclaw-channel/src/lib.rs)                                    *)

\* str::to_lowercase on the letters of the model's paths
LowerOf ==
    [c \in {"S", "H", "I", "D", "E", "N", "V"} |->
        CASE c = "S" -> "s" [] c = "H" -> "h" [] c = "I" -> "i" [] c = "D" -> "d"
          [] c = "E" -> "e" [] c = "N" -> "n" [] c = "V" -> "v"]

to_lowercase(s) == [i \in 1..Len(s) |-> IF s[i] \in DOMAIN LowerOf THEN LowerOf[s[i]] ELSE s[i]]

\* The paths the model calls the file tools with: sensitive ones (one in
\* upper case), harmless ones
Path_SshKey == <<".","s","s","h","/","i","d","_","r","s","a">>   \* .ssh/id_rsa
Path_UpperEnv == <<".","E","N","V">>                             \* .ENV
Path_Notes == <<"n","o","t","e","s">>                            \* notes
Path_Dot == <<".">>                                              \* .
Path_AwsDir == <<".","a","w","s","/">>                           \* .aws/
Paths == {Path_SshKey, Path_UpperEnv, Path_Notes, Path_AwsDir}

\* The arguments object of one call of a file tool; a key that is absent
\* or not a string is None
FileArgs ==
    [path : {None} \cup {Some(p) : p \in Paths},
     content : {None, Some(<<"x">>)},
     confirm_sensitive : JsonFlag,
     confirm_overwrite : {"absent", "true"}]

\* What the filesystem answers to an operation
FsOutcomes == {"ok", "io_error"}

\* anyhow!(text): the error of a call that returns Err
anyhow_text(text) == [error |-> text]

\* one operation on the filesystem: std::fs::read_to_string, read_dir, write
FsOp(op, path) == [op |-> op, path |-> path]

\* lines 511-527: the sensitive check of ReadFileTool, on the lowercased
\* path and the lowercased patterns
ReadSensitiveRefusal(path, confirm_sensitive) ==
    LET lower_path == to_lowercase(path)
        lowered == [i \in 1..Len(SENSITIVE_PATTERNS) |-> to_lowercase(SENSITIVE_PATTERNS[i])]
    IN  IF ~confirm_sensitive /\ IsSome(FirstMatch(lower_path, lowered))
        THEN Some([success |-> FALSE, needs_confirmation |-> TRUE,
                   confirmation_type |-> "sensitive_file", path |-> path])
        ELSE None

\* ReadSensitiveRefusal on every path and flag of the model, computed once
ReadRefusalOf ==
    [path \in Paths |->
        [confirm_sensitive \in BOOLEAN |-> ReadSensitiveRefusal(path, confirm_sensitive)]]

\* ReadFileTool::execute, lines 496-549
ReadFileTool_execute(args, outcome) ==
    /\ UNCHANGED <<bash_call, bash_result, spawn_count>>
    /\ UNCHANGED <<agentic_vars, mcp_vars, context_vars>>
    /\ file_call' = Some([tool |-> "read_file", args |-> args])
    /\ IF args.path = None
       THEN /\ file_result' = Some([ok |-> FALSE, value |-> anyhow_text("Missing 'path' argument")])
            /\ file_effect' = None
       ELSE LET path == Unwrap(args.path)
                refusal == ReadRefusalOf[path][AsBoolOrFalse(args.confirm_sensitive)]
            IN  IF IsSome(refusal)
                THEN /\ file_result' = Some([ok |-> TRUE, value |-> Unwrap(refusal)])
                     /\ file_effect' = None
                ELSE /\ file_effect' = Some(FsOp("read_to_string", path))
                     /\ file_result' =
                            Some([ok |-> TRUE, value |-> [success |-> outcome = "ok"]])

\* ListDirTool::execute, lines 574-614
ListDirTool_execute(args, outcome) ==
    /\ UNCHANGED <<bash_call, bash_result, spawn_count>>
    /\ UNCHANGED <<agentic_vars, mcp_vars, context_vars>>
    /\ file_call' = Some([tool |-> "list_dir", args |-> args])
    /\ LET path == IF IsSome(args.path) THEN Unwrap(args.path) ELSE Path_Dot
       IN  /\ file_effect' = Some(FsOp("read_dir", path))
           /\ file_result' =
                  Some([ok |-> TRUE,
                        value |-> IF outcome = "ok"
                                  THEN [success |-> TRUE, path |-> path]
                                  ELSE [success |-> FALSE]])

\* WriteFileTool::execute, lines 649-688; `exists` is what
\* Path::new(path).exists() finds
WriteFileTool_execute(args, exists, outcome) ==
    /\ UNCHANGED <<bash_call, bash_result, spawn_count>>
    /\ UNCHANGED <<agentic_vars, mcp_vars, context_vars>>
    /\ file_call' = Some([tool |-> "write_file", args |-> args])
    /\ IF args.path = None
       THEN /\ file_result' = Some([ok |-> FALSE, value |-> anyhow_text("Missing 'path' argument")])
            /\ file_effect' = None
       ELSE IF args.content = None
       THEN /\ file_result' = Some([ok |-> FALSE, value |-> anyhow_text("Missing 'content' argument")])
            /\ file_effect' = None
       ELSE LET path == Unwrap(args.path)
            IN  IF exists /\ ~AsBoolOrFalse(args.confirm_overwrite)
                THEN /\ file_result' =
                            Some([ok |-> TRUE,
                                  value |-> [success |-> FALSE, needs_confirmation |-> TRUE,
                                             confirmation_type |-> "overwrite",
                                             path |-> path]])
                     /\ file_effect' = None
                ELSE /\ file_effect' = Some(FsOp("write", path))
                     /\ file_result' =
                            Some([ok |-> TRUE, value |-> [success |-> outcome = "ok"]])

-----------------------------------------------------------------------------
(* JSON values and the tools: crates/rustclaw-provider/src/lib.rs          *)

\* serde_json::Value, as far as the model needs it
JsonString(s) == [type |-> "string", s |-> s]
JsonObject(fields) == [type |-> "object", fields |-> fields]

\* Value::get(key): Some(field) of an object that has the key, else None
JsonGet(v, key) ==
    IF v.type = "object" /\ key \in DOMAIN v.fields THEN Some(v.fields[key]) ELSE None

\* Value::as_str
JsonAsStr(o) == IF IsSome(o) /\ Unwrap(o).type = "string" THEN Some(Unwrap(o).s) ELSE None

\* serde_json's text of an object with one string field (no character of
\* the model's strings needs escaping)
JsonObjectText(key, s) ==
    <<"{","\"">> \o key \o <<"\"",":","\"">> \o s \o <<"\"","}">>

Str_error == <<"e","r","r","o","r">>
Str_echoed == <<"e","c","h","o","e","d">>
Str_hi == <<"h","i">>
EchoName == <<"e","c","h","o">>
UnknownName == <<"n","o","p","e">>

\* The argument strings the model's endpoint produces
ArgsMessage == <<"{","\"","m","e","s","s","a","g","e","\"",":","\"","h","i","\"","}">>   \* {"message":"hi"}
ArgsEmptyObject == <<"{","}">>                                                          \* {}
ArgsNotObject == <<"\"","h","i","\"">>                                                  \* "hi"
ArgsTruncated == <<"{","\"","m","e","s","s","a","g","e","\"",":">>                      \* {"message":
ArgumentStrings == {ArgsMessage, ArgsEmptyObject, ArgsNotObject, ArgsTruncated}

\* The tool calls the model's endpoint asks for, <<name, arguments>>: one that
\* succeeds, one whose tool returns an error, one naming an unknown tool,
\* one whose arguments do not parse
CallChoices ==
    {<<EchoName, ArgsMessage>>, <<EchoName, ArgsNotObject>>,
     <<UnknownName, ArgsEmptyObject>>, <<EchoName, ArgsTruncated>>}

Str_EofError ==
    <<"E","O","F"," ","w","h","i","l","e"," ","p","a","r","s","i","n","g"," ","a"," ",
      "v","a","l","u","e"," ","a","t"," ","l","i","n","e"," ","1"," ",
      "c","o","l","u","m","n"," ","1","1">>

\* serde_json::from_str on the argument strings of the model
from_str(s) ==
    CASE s = ArgsMessage -> [ok |-> TRUE, value |-> JsonObject([message |-> JsonString(Str_hi)])]
      [] s = ArgsEmptyObject -> [ok |-> TRUE, value |-> JsonObject(<<>>)]
      [] s = ArgsNotObject -> [ok |-> TRUE, value |-> JsonString(Str_hi)]
      [] s = ArgsTruncated -> [ok |-> FALSE, error |-> Str_EofError]

Str_MissingMessage ==
    <<"M","i","s","s","i","n","g"," ","'","m","e","s","s","a","g","e","'"," ",
      "a","r","g","u","m","e","n","t">>
Str_UnknownTool == <<"U","n","k","n","o","w","n"," ","t","o","o","l",":"," ">>
Str_FailedToParse ==
    <<"F","a","i","l","e","d"," ","t","o"," ","p","a","r","s","e"," ",
      "a","r","g","u","m","e","n","t","s",":"," ">>

\* EchoTool::execute, lines 470-476: Ok(text of {"echoed": message}) or Err
EchoTool_execute(args) ==
    LET message == JsonAsStr(JsonGet(args, "message"))
    IN  IF IsSome(message)
        THEN [ok |-> TRUE, text |-> JsonObjectText(Str_echoed, Unwrap(message))]
        ELSE [ok |-> FALSE, error |-> Str_MissingMessage]

\* ToolRegistry::execute, lines 72-77, on a registry holding EchoTool
ToolRegistry_execute(name, args) ==
    IF name = EchoName
    THEN EchoTool_execute(args)
    ELSE [ok |-> FALSE, error |-> Str_UnknownTool \o name]

\* ToolResult::new / ToolResult::from_json
ToolResult(tool_call_id, output) == [tool_call_id |-> tool_call_id, output |-> output]

\* execute_call with the error text returned as it is, not as JSON
execute_call_RawError(call) ==
    LET parsed == from_str(call.arguments)
    IN  IF parsed.ok
        THEN LET r == ToolRegistry_execute(call.name, parsed.value)
             IN  IF r.ok THEN ToolResult(call.id, r.text)
                 ELSE ToolResult(call.id, r.error)
        ELSE ToolResult(call.id, Str_FailedToParse \o parsed.error)

\* ToolRegistry::execute_call, lines 80-95
execute_call(call) ==
    LET parsed == from_str(call.arguments)
    IN  IF parsed.ok
        THEN LET r == ToolRegistry_execute(call.name, parsed.value)
             IN  IF r.ok THEN ToolResult(call.id, r.text)
                 ELSE ToolResult(call.id, JsonObjectText(Str_error, r.error))
        ELSE ToolResult(call.id,
                        JsonObjectText(Str_error, Str_FailedToParse \o parsed.error))

\* execute_tool_calls collecting the results last call first
execute_tool_calls_Reversed(tool_calls) ==
    [k \in 1..Len(tool_calls) |-> execute_call(tool_calls[Len(tool_calls) + 1 - k])]

\* ProviderService::execute_tool_calls, lines 196-201: one result per call,
\* in the order of the calls
execute_tool_calls(tool_calls) ==
    [k \in 1..Len(tool_calls) |-> execute_call(tool_calls[k])]

-----------------------------------------------------------------------------
(* The agentic loop: ProviderService::complete_agentic                     *)

\* Bounds of the model
MaxIterations == 3
MaxToolCalls == 2

Sentinel ==
    <<"[","M","a","x"," ","t","o","o","l"," ","i","t","e","r","a","t","i","o","n","s"," ",
      "r","e","a","c","h","e","d","]">>

\* ProviderService::new, line 116
system_prompt ==
    <<"Y","o","u"," ","a","r","e"," ","a"," ","h","e","l","p","f","u","l"," ",
      "a","s","s","i","s","t","a","n","t",".">>

\* The inputs of a run: the earlier messages of the chat and the prompt
MessageLists == {<< <<"e","a","r","l","i","e","r">> >>}
Prompts == {<<>>, <<"q">>}

\* What the completion endpoint can answer
Contents ==
    {None, Some(<<>>), Some(<<" ">>), Some(<<"\n","\t">>), Some(Str_hi),
     Some(<<" ","o","k"," ">>), Some(Sentinel)}
EndpointErrors == {<<"c","o","n","n","e","c","t","i","o","n"," ","r","e","f","u","s","e","d">>}

\* The tool calls of the response of iteration `it`: 1..MaxToolCalls calls,
\* the k-th with an id of its own
ToolCallLists ==
    UNION { [1..n -> CallChoices] : n \in 1..MaxToolCalls }

MakeCalls(it, choice) ==
    [k \in 1..Len(choice) |->
        [id |-> <<it, k>>, name |-> choice[k][1], arguments |-> choice[k][2]]]

\* ProviderService::build_messages, lines 317-378
build_messages(msgs, p, results) ==
    << [role |-> "system", content |-> system_prompt] >>
    \o [k \in 1..Len(msgs) |-> [role |-> "user", content |-> msgs[k]]]
    \o (IF p /= <<>> THEN << [role |-> "user", content |-> p] >> ELSE <<>>)
    \o (IF IsSome(results)
        THEN [k \in 1..Len(Unwrap(results)) |->
                [role |-> "tool",
                 content |-> Unwrap(results)[k].output,
                 tool_call_id |-> Unwrap(results)[k].tool_call_id]]
        ELSE <<>>)

\* the loop without its cap
LoopContinues_NoCap(it, max) == TRUE

\* the loop running once more than the cap
LoopContinues_Inclusive(it, max) == it <= max

\* line 225: `for iteration in 0..max_iterations`
LoopContinues(it, max) == it < max

\* the text returned with its surrounding blanks removed
FinalAnswer_Trimmed(content, last_output) ==
    LET content_is_empty == content = None \/ Trim(Unwrap(content)) = <<>>
    IN  IF content_is_empty /\ IsSome(last_output) THEN Unwrap(last_output)
        ELSE IF IsSome(content) THEN Trim(Unwrap(content)) ELSE <<>>

\* lines 232-244: the value returned for a response without tool calls
FinalAnswer(content, last_output) ==
    LET content_is_empty == content = None \/ Trim(Unwrap(content)) = <<>>
    IN  IF content_is_empty /\ IsSome(last_output) THEN Unwrap(last_output)
        ELSE IF IsSome(content) THEN Unwrap(content) ELSE <<>>

\* the first output of the run kept instead of the latest
RecordOutputs_KeepFirst(last_output, results) ==
    IF IsSome(last_output) THEN last_output
    ELSE IF results = <<>> THEN last_output
    ELSE Some(results[1].output)

\* lines 251-263: last_tool_output after the results of one response
RecordOutputs(last_output, results) ==
    IF results = <<>> THEN last_output ELSE Some(results[Len(results)].output)

\* lines 220-223: a call of complete_agentic
AgenticStart(max, msgs, p) ==
    /\ pc = "idle"
    /\ pc' = "running"
    /\ max_iterations' = max
    /\ messages' = msgs
    /\ prompt' = p
    /\ iteration' = 0
    /\ tool_results' = None
    /\ last_tool_output' = None
    /\ UNCHANGED <<ret, responses, last_response, request, tool_execs>>
    /\ UNCHANGED <<bash_vars, mcp_vars, context_vars>>

\* lines 225-229: the loop goes round and sends the completion request of
\* this iteration, built from tool_results.take()
AgenticRequest ==
    /\ pc = "running"
    /\ LoopContinues(iteration, max_iterations)
    /\ request' = Some(build_messages(messages, prompt, tool_results))
    /\ tool_results' = None
    /\ pc' = "awaiting"
    /\ UNCHANGED <<max_iterations, messages, prompt, iteration, last_tool_output, ret,
                   responses, last_response, tool_execs>>
    /\ UNCHANGED <<bash_vars, mcp_vars, context_vars>>

\* an endpoint error answered by going on to the next iteration
AgenticError_Retry(e) ==
    /\ pc = "awaiting"
    /\ request' = None
    /\ responses' = Append(responses, "error")
    /\ last_response' = Some([kind |-> "error", error |-> e])
    /\ iteration' = iteration + 1
    /\ pc' = "running"
    /\ UNCHANGED <<ret, tool_results, last_tool_output, tool_execs, max_iterations,
                   messages, prompt>>
    /\ UNCHANGED <<bash_vars, mcp_vars, context_vars>>

\* lines 228-230: the completion call fails and `?` returns the error
AgenticError(e) ==
    /\ pc = "awaiting"
    /\ request' = None
    /\ responses' = Append(responses, "error")
    /\ last_response' = Some([kind |-> "error", error |-> e])
    /\ ret' = Err(e)
    /\ pc' = "returned"
    /\ UNCHANGED <<iteration, tool_results, last_tool_output, tool_execs, max_iterations,
                   messages, prompt>>
    /\ UNCHANGED <<bash_vars, mcp_vars, context_vars>>

\* lines 232-245: a response without tool calls ends the run
AgenticText(content) ==
    /\ pc = "awaiting"
    /\ request' = None
    /\ responses' = Append(responses, "text")
    /\ last_response' = Some([kind |-> "text", content |-> content])
    /\ ret' = Ok(FinalAnswer(content, last_tool_output))
    /\ last_tool_output' =   \* line 239: last_tool_output.take()
          IF content = None \/ Trim(Unwrap(content)) = <<>> THEN None ELSE last_tool_output
    /\ pc' = "returned"
    /\ UNCHANGED <<iteration, tool_results, tool_execs, max_iterations, messages, prompt>>
    /\ UNCHANGED <<bash_vars, mcp_vars, context_vars>>

\* lines 247-266: a response with tool calls (its text, if any, is not
\* read); the calls are executed and their results staged for the next
\* iteration
AgenticTools(tool_calls) ==
    /\ pc = "awaiting"
    /\ request' = None
    /\ responses' = Append(responses, "tool_calls")
    /\ last_response' = Some([kind |-> "tool_calls", tool_calls |-> tool_calls])
    /\ LET results == execute_tool_calls(tool_calls)
       IN  /\ tool_execs' = tool_execs + Len(tool_calls)
           /\ last_tool_output' = RecordOutputs(last_tool_output, results)
           /\ tool_results' = Some(results)
    /\ iteration' = iteration + 1
    /\ pc' = "running"
    /\ UNCHANGED <<ret, max_iterations, messages, prompt>>
    /\ UNCHANGED <<bash_vars, mcp_vars, context_vars>>

\* lines 269-270: the loop ran out of iterations
AgenticExhausted ==
    /\ pc = "running"
    /\ ~LoopContinues(iteration, max_iterations)
    /\ ret' = Ok(Sentinel)
    /\ pc' = "returned"
    /\ UNCHANGED <<max_iterations, messages, prompt, iteration, tool_results,
                   last_tool_output, responses, last_response, request, tool_execs>>
    /\ UNCHANGED <<bash_vars, mcp_vars, context_vars>>

-----------------------------------------------------------------------------
(* Concurrent startup of the MCP servers: MCPToolRegistry::start_all       *)
(* (crates/rustclaw-mcp/src/registry.rs) and MCPClient::start              *)
(* (crates/rustclaw-mcp/src/client.rs)                                     *)

\* Bound of the model: the number of configured servers
MaxServers == 2

\* Server names are the keys of MCPConfig.servers, a HashMap: distinct
ServerNames == 1..MaxServers

\* config.rs, default_startup_timeout
default_startup_timeout == 10

\* MCPServerConfig::Simple and MCPServerConfig::Advanced (the transport is
\* not modelled)
Simple == [form |-> "Simple"]
Advanced(startup_timeout) == [form |-> "Advanced", startup_timeout |-> startup_timeout]

ServerConfigs == {Simple, Advanced(None), Advanced(Some(30))}
GlobalTimeouts == {1, 30}

\* The values of MCPConfig: a global timeout and 0..MaxServers servers
MCPConfigs ==
    { [startup_timeout |-> g, servers |-> sv] :
        g \in GlobalTimeouts,
        sv \in UNION { [1..n -> ServerConfigs] : n \in 0..MaxServers } }

\* MCPConfig::default
MCPConfig_default == [startup_timeout |-> default_startup_timeout, servers |-> <<>>]

\* MCPServerConfig::get_timeout, in seconds
get_timeout(config, global_timeout) ==
    IF config.form = "Simple"
    THEN global_timeout
    ELSE IF IsSome(config.startup_timeout)
         THEN Unwrap(config.startup_timeout)
         ELSE global_timeout

\* registry.rs line 46: the timeout start_all hands to MCPClient::start
start_all_timeout_secs(config) == get_timeout(config, 10)

\* The seconds a server needs until its startup sequence resolves (with a
\* client or with an error), were it left alone
Latencies == {0, 60}

\* A startup task: where it is, the timeout and the server's latency while
\* MCPClient::start runs, and the Result of MCPClient::start once it returned
NoTask == [phase |-> "none", timeout |-> 0, latency |-> 0, result |-> None]
Started(timeout, latency) ==
    [phase |-> "spawn", timeout |-> timeout, latency |-> latency, result |-> None]
Resolved(result) == [phase |-> "resolved", timeout |-> 0, latency |-> 0, result |-> Some(result)]

\* the Ok value of start_stdio / start_http, and the MCPError values
MCPClient(name) ==
    [ok |-> TRUE, name |-> name, tools |-> << <<name, "tool">> >>,
     protocol_version |-> "2024-11-05"]
MCPError(kind, name) == [ok |-> FALSE, kind |-> kind, server |-> name]

\* tokio::time::timeout: the inner future resolves if it is ready before
\* the deadline, and the deadline fires if the future is not ready by then
InTime(task) == task.latency <= task.timeout
Expired(task) == task.latency >= task.timeout

InProgress(task) == task.phase \in {"spawn", "handshake", "list"}

\* HashMap::insert
HashMap_insert(map, key, value) ==
    [k \in DOMAIN map \cup {key} |-> IF k = key THEN value ELSE map[k]]

Configured == DOMAIN mcp_config.servers

\* registry.rs lines 30-38: start_all is called; with no server configured
\* it returns the empty registry at once
start_all_call(config) ==
    /\ mcp_pc = "idle"
    /\ mcp_config' = config
    /\ clients' = <<>>
    /\ mcp_pc' = IF DOMAIN config.servers = {} THEN "returned" ELSE "spawning"
    /\ UNCHANGED <<tasks>>
    /\ UNCHANGED <<tool_vars, transport_vars, lock_vars, bash_vars, agentic_vars, context_vars>>

\* lines 43-72: one turn of the for loop spawns the task of one server (a
\* HashMap iterates in no particular order); after the last one start_all
\* goes on to wait
start_all_spawn(name, latency) ==
    /\ mcp_pc = "spawning"
    /\ name \in Configured
    /\ tasks[name].phase = "none"
    /\ tasks' = [tasks EXCEPT
                    ![name] = Started(start_all_timeout_secs(mcp_config.servers[name]),
                                      latency)]
    /\ mcp_pc' = IF \A n \in Configured \ {name} : tasks[n].phase /= "none"
                 THEN "joining" ELSE "spawning"
    /\ UNCHANGED <<mcp_config, clients>>
    /\ UNCHANGED <<tool_vars, transport_vars, lock_vars, bash_vars, agentic_vars, context_vars>>

\* client.rs lines 125-149: the transport is created (the child process is
\* spawned), or that fails with StartupFailed
start_transport(name, ok) ==
    /\ tasks[name].phase = "spawn"
    /\ ~ok => InTime(tasks[name])
    /\ tasks' = [tasks EXCEPT
                    ![name] = IF ok THEN [@ EXCEPT !.phase = "handshake"]
                              ELSE Resolved(MCPError("StartupFailed", name))]
    /\ UNCHANGED <<mcp_pc, mcp_config, clients>>
    /\ UNCHANGED <<tool_vars, transport_vars, lock_vars, bash_vars, agentic_vars, context_vars>>

\* lines 152-157: the protocol handshake, or its failure
serve(name, ok) ==
    /\ tasks[name].phase = "handshake"
    /\ ~ok => InTime(tasks[name])
    /\ tasks' = [tasks EXCEPT
                    ![name] = IF ok THEN [@ EXCEPT !.phase = "list"]
                              ELSE Resolved(MCPError("Sdk", name))]
    /\ UNCHANGED <<mcp_pc, mcp_config, clients>>
    /\ UNCHANGED <<tool_vars, transport_vars, lock_vars, bash_vars, agentic_vars, context_vars>>

\* lines 160-176 and 224-246: the tools are listed and MCPClient::start
\* returns the client, or the listing fails
discover_tools(name, ok) ==
    /\ tasks[name].phase = "list"
    /\ InTime(tasks[name])
    /\ tasks' = [tasks EXCEPT
                    ![name] = IF ok THEN Resolved(MCPClient(name))
                              ELSE Resolved(MCPError("Sdk", name))]
    /\ UNCHANGED <<mcp_pc, mcp_config, clients>>
    /\ UNCHANGED <<tool_vars, transport_vars, lock_vars, bash_vars, agentic_vars, context_vars>>

\* the deadline fires and the future is dropped, but start returns a client
\* made of what the handshake had reached
timeout_elapsed_KeepsPartial(name) ==
    /\ InProgress(tasks[name])
    /\ Expired(tasks[name])
    /\ tasks' = [tasks EXCEPT
                    ![name] = IF tasks[name].phase = "list"
                              THEN Resolved([MCPClient(name) EXCEPT !.tools = <<>>])
                              ELSE Resolved(MCPError("StartupTimeout", name))]
    /\ UNCHANGED <<mcp_pc, mcp_config, clients>>
    /\ UNCHANGED <<tool_vars, transport_vars, lock_vars, bash_vars, agentic_vars, context_vars>>

\* lines 80-107: the deadline of tokio::time::timeout fires: the future of
\* the startup sequence is dropped with all it holds and start returns
\* StartupTimeout
timeout_elapsed(name) ==
    /\ InProgress(tasks[name])
    /\ Expired(tasks[name])
    /\ tasks' = [tasks EXCEPT ![name] = Resolved(MCPError("StartupTimeout", name))]
    /\ UNCHANGED <<mcp_pc, mcp_config, clients>>
    /\ UNCHANGED <<tool_vars, transport_vars, lock_vars, bash_vars, agentic_vars, context_vars>>

\* the task of a failed server empties the connection map
task_finish_FailFast(name) ==
    /\ tasks[name].phase = "resolved"
    /\ clients' = IF Unwrap(tasks[name].result).ok
                  THEN HashMap_insert(clients, name, Unwrap(tasks[name].result))
                  ELSE <<>>
    /\ tasks' = [tasks EXCEPT ![name].phase = "done"]
    /\ UNCHANGED <<mcp_pc, mcp_config>>
    /\ UNCHANGED <<tool_vars, transport_vars, lock_vars, bash_vars, agentic_vars, context_vars>>

\* registry.rs lines 56-70: the task matches on the Result of start: a
\* client is inserted under the server's name, an error is logged; the task
\* ends
task_finish(name) ==
    /\ tasks[name].phase = "resolved"
    /\ clients' = IF Unwrap(tasks[name].result).ok
                  THEN HashMap_insert(clients, name, Unwrap(tasks[name].result))
                  ELSE clients
    /\ tasks' = [tasks EXCEPT ![name].phase = "done"]
    /\ UNCHANGED <<mcp_pc, mcp_config>>
    /\ UNCHANGED <<tool_vars, transport_vars, lock_vars, bash_vars, agentic_vars, context_vars>>

\* the tasks that have ended
Finished == {n \in Configured : tasks[n].phase = "done"}

\* start_all waiting for one task only: `if` in the place of `while`
start_all_return_AfterFirstJoin ==
    /\ mcp_pc = "joining"
    /\ Finished /= {}
    /\ mcp_pc' = "returned"
    /\ UNCHANGED <<mcp_config, tasks, clients>>
    /\ UNCHANGED <<tool_vars, transport_vars, lock_vars, bash_vars, agentic_vars, context_vars>>

\* lines 75-80: the loop over join_next takes the result of each task as
\* it ends and is left when the JoinSet is empty, every task having ended;
\* start_all returns the registry
start_all_return ==
    /\ mcp_pc = "joining"
    /\ Finished = Configured
    /\ mcp_pc' = "returned"
    /\ UNCHANGED <<mcp_config, tasks, clients>>
    /\ UNCHANGED <<tool_vars, transport_vars, lock_vars, bash_vars, agentic_vars, context_vars>>

-----------------------------------------------------------------------------
(* The lock of the connection map: registry.clients is an                  *)
(* Arc<RwLock<HashMap<String, MCPClient>>> (registry.rs line 14); the      *)
(* registry is in the caller's hands once start_all has returned.          *)

\* The callers that use the registry at the same time
Callers == {"turn_a", "turn_b"}

\* the startup tasks that have been spawned and have not ended: each may
\* still take the write guard (registry.rs line 64)
WritersToCome == {n \in Configured : tasks[n].phase \notin {"none", "done"}}

\* RwLock::read: the guard is handed out at once unless a writer holds the
\* lock or is to come, and any number of read guards are held together; a
\* caller that is not handed its guard waits
RwLock_read(caller, via) ==
    IF WritersToCome = {}
    THEN /\ read_guards' = HashMap_insert(read_guards, caller, via)
         /\ UNCHANGED read_waiting
    ELSE /\ read_waiting' = read_waiting \cup {caller}
         /\ UNCHANGED read_guards

\* MCPToolRegistry::execute, lines 91-93: `self.clients.read().await`
MCPToolRegistry_execute_read(caller) ==
    /\ mcp_pc = "returned"
    /\ caller \notin DOMAIN read_guards \cup read_waiting
    /\ RwLock_read(caller, "registry")
    /\ UNCHANGED <<mcp_pc, mcp_config, tasks, clients, tool_vars, transport_vars,
                   server_count_seen>>
    /\ UNCHANGED <<bash_vars, agentic_vars, context_vars>>

\* MCPToolWrapper::execute, tool_bridge.rs lines 43-45: `registry.read().await`
MCPToolWrapper_execute_read(caller) ==
    /\ mcp_pc = "returned"
    /\ caller \notin DOMAIN read_guards \cup read_waiting
    /\ RwLock_read(caller, "bridge")
    /\ UNCHANGED <<mcp_pc, mcp_config, tasks, clients, tool_vars, transport_vars,
                   server_count_seen>>
    /\ UNCHANGED <<bash_vars, agentic_vars, context_vars>>

\* registry.rs lines 95-103 and tool_bridge.rs lines 47-56: the map is
\* looked up, the call is made (or the lookup fails) and the function
\* returns: the guard, held across the call, is dropped
execute_returns(caller) ==
    /\ caller \in DOMAIN read_guards
    /\ read_guards' = [c \in DOMAIN read_guards \ {caller} |-> read_guards[c]]
    /\ UNCHANGED <<mcp_pc, mcp_config, tasks, clients, tool_vars, transport_vars,
                   read_waiting, server_count_seen>>
    /\ UNCHANGED <<bash_vars, agentic_vars, context_vars>>

\* MCPToolRegistry::server_count, lines 133-135: blocking_read, len, and
\* the guard is dropped
server_count ==
    /\ mcp_pc = "returned"
    /\ WritersToCome = {}
    /\ server_count_seen' = Some(Cardinality(DOMAIN clients))
    /\ UNCHANGED <<mcp_pc, mcp_config, tasks, clients, tool_vars, transport_vars,
                   read_guards, read_waiting>>
    /\ UNCHANGED <<bash_vars, agentic_vars, context_vars>>

-----------------------------------------------------------------------------
(* Remote tools in use: MCPClient::call_tool (client.rs), the bridge        *)
(* MCPToolWrapper (tool_bridge.rs), MCPToolRegistry::execute and            *)
(* to_tool_functions (registry.rs), and their registration beside the       *)
(* built-in tools (gateway service.rs).  Names are TLA+ strings.            *)

\* serde_json::Value, beside JsonString and JsonObject
Value_Null == [type |-> "null"]
JsonBool(b) == [type |-> "bool", b |-> b]
JsonNumber(n) == [type |-> "number", n |-> n]
JsonArray(items) == [type |-> "array", items |-> items]

\* Result<Value, _>
Success(value) == [ok |-> TRUE, value |-> value]
Failure(error) == [ok |-> FALSE, error |-> error]

\* MCPError::ToolNotFound and MCPError::ToolExecution, error.rs
MCPError_ToolNotFound(server, tool) ==
    [kind |-> "ToolNotFound", server |-> server, tool |-> tool]
MCPError_ToolExecution(server, tool, reason) ==
    [kind |-> "ToolExecution", server |-> server, tool |-> tool, reason |-> reason]
\* the text of a reason or of an anyhow error: format!(text, value) with
\* the value it displays, if any
Reason(text, shown) == [text |-> text, shown |-> shown]
anyhow(text, shown) == [kind |-> "anyhow", text |-> text, shown |-> shown]

\* The servers a registry may hold after start_all, and the tools they list
ServerNameChoices == {"a", "a_b", "read"}
ToolLists == {<<"c">>, <<"c", "b_c">>, <<"file">>}
StartedMaps ==
    UNION { [S -> {[MCPClient(n) EXCEPT !.tools = ts] : n \in S, ts \in ToolLists}] :
                S \in {T \in SUBSET ServerNameChoices : Cardinality(T) <= MaxServers} }
StartedRegistries == {m \in StartedMaps : \A n \in DOMAIN m : m[n].name = n}

\* call_tool with a null argument wrapped like every other non-object
call_tool_arguments_WrapsNull(args) ==
    IF args.type = "object" THEN Some(args.fields) ELSE Some([input |-> args])

\* MCPClient::call_tool, lines 255-268: the arguments of the request
call_tool_arguments(args) ==
    CASE args.type = "object" -> Some(args.fields)
      [] args.type = "null" -> None
      [] OTHER -> Some([input |-> args])

\* lines 270-277: CallToolRequestParams, with the server it is sent to
CallToolRequestParams(server, tool_name, args) ==
    [server |-> server, name |-> tool_name, arguments |-> call_tool_arguments(args)]

\* rmcp CallToolResult and its content items
TextContent(text) == [kind |-> "text", text |-> text]
ImageContent == [kind |-> "image"]
CallToolResult(content, is_error) == [content |-> content, is_error |-> is_error]

\* serde_json::from_str on the texts a server of the model returns
from_str_text(text) ==
    CASE text = "42" -> Success(JsonNumber(42))
      [] text = "{\"ok\":true}" -> Success(JsonObject([ok |-> JsonBool(TRUE)]))
      [] OTHER -> Failure("expected value at line 1 column 1")

\* lines 287-303: the text items, each parsed as JSON or kept as a string
content_values(content) ==
    LET texts == SelectSeq(content, LAMBDA c : c.kind = "text")
    IN  [i \in 1..Len(texts) |->
            IF from_str_text(texts[i].text).ok
            THEN from_str_text(texts[i].text).value
            ELSE JsonString(texts[i].text)]

\* lines 305-310
call_tool_output(content) ==
    LET values == content_values(content)
    IN  CASE Len(values) = 0 -> Value_Null
          [] Len(values) = 1 -> values[1]
          [] OTHER -> JsonArray(values)

\* call_tool taking a flagged response for a success
call_tool_result_IgnoresFlag(server, tool_name, response) ==
    IF ~response.ok
    THEN Failure(MCPError_ToolExecution(server, tool_name, Reason(response.error, None)))
    ELSE Success(call_tool_output(response.value.content))

\* lines 270-321: what call_tool returns for the answer of the peer, an
\* Success(CallToolResult) or an Err of the transport
call_tool_result(server, tool_name, response) ==
    IF ~response.ok
    THEN Failure(MCPError_ToolExecution(server, tool_name, Reason(response.error, None)))
    ELSE LET output == call_tool_output(response.value.content)
             is_error == response.value.is_error
         IN  IF IsSome(is_error) /\ Unwrap(is_error)
             THEN Failure(MCPError_ToolExecution(server, tool_name,
                                             Reason("Tool returned error: ", Some(output))))
             ELSE Success(output)

\* The arguments of the calls and the answers of the servers
ArgValues ==
    { Value_Null, JsonBool(TRUE), JsonNumber(7), JsonString("s"),
      JsonArray(<<JsonNumber(1)>>), JsonObject(<<>>),
      JsonObject([path |-> JsonString("/tmp/a")]) }
ContentItems == {TextContent("42"), TextContent("{\"ok\":true}"), TextContent("done"),
                 ImageContent}
ContentLists == UNION { [1..n -> ContentItems] : n \in 0..2 }
PeerResponses ==
    { Success(CallToolResult(content, is_error)) :
        content \in ContentLists, is_error \in {None, Some(FALSE), Some(TRUE)} }
    \cup {Failure("connection closed")}

\* a built-in tool and a bridged one, as the ToolRegistry holds them
LocalTool(name) == [kind |-> "local", name |-> name]
\* tool_bridge.rs lines 12-23 with registry.rs lines 111-117
MCPToolWrapper(server_name, tool_name) ==
    [kind |-> "mcp", server_name |-> server_name, tool_name |-> tool_name,
     full_name |-> server_name \o "_" \o tool_name]

\* ToolFunction::definition().function.name
definition_name(tool) == IF tool.kind = "mcp" THEN tool.full_name ELSE tool.name

\* create_default_tools, channel lib.rs lines 692-701 (the tools whose
\* names the sources give)
LocalToolNames == {"echo", "bash", "read_file", "list_dir", "write_file"}
create_default_tools == [n \in LocalToolNames |-> LocalTool(n)]

\* the bridged tools that exist: returned by to_tool_functions, registered
\* or not yet
WrappersHeld ==
    {bridged[i] : i \in 1..Len(bridged)}
    \cup {tool_registry[n] : n \in {k \in DOMAIN tool_registry : tool_registry[k].kind = "mcp"}}

RECURSIVE wrappers_in_order(_, _)
\* registry.rs lines 108-120: the loop over the clients, in an order the
\* HashMap decides, and over the tools of each
wrappers_in_order(order, map) ==
    IF order = <<>> THEN <<>>
    ELSE [i \in 1..Len(map[order[1]].tools) |->
              MCPToolWrapper(order[1], map[order[1]].tools[i])]
         \o wrappers_in_order(Tail(order), map)

\* the orders in which a HashMap may yield its keys
IterationOrders(map) ==
    {o \in [1..Cardinality(DOMAIN map) -> DOMAIN map] :
        \A i, j \in DOMAIN o : i /= j => o[i] /= o[j]}

\* MCPToolRegistry::start_all run to its return: the registry holds the
\* servers that started
start_all_completed(map) ==
    /\ mcp_pc = "idle"
    /\ mcp_pc' = "returned"
    /\ clients' = map
    /\ registry_state' = "alive"
    /\ open_connections' = DOMAIN map
    /\ UNCHANGED <<mcp_config, tasks, bridged, tool_registry, in_flight, call_result>>
    /\ UNCHANGED <<transport_vars, lock_vars, bash_vars, agentic_vars, context_vars>>

\* gateway service.rs line 80
gateway_create_default_tools ==
    /\ tool_registry = <<>>
    /\ tool_registry' = create_default_tools
    /\ UNCHANGED <<mcp_pc, mcp_config, tasks, clients, registry_state, open_connections,
                   bridged, in_flight, call_result>>
    /\ UNCHANGED <<transport_vars, lock_vars, bash_vars, agentic_vars, context_vars>>

\* MCPToolRegistry::to_tool_functions, lines 104-123 (gateway service.rs
\* line 92): one wrapper per tool of every client, each with a clone of the
\* Arc of the connection map
to_tool_functions(order) ==
    /\ registry_state = "alive"
    /\ tool_registry /= <<>>
    /\ WrappersHeld = {}
    /\ clients /= <<>>
    /\ order \in IterationOrders(clients)
    /\ bridged' = wrappers_in_order(order, clients)
    /\ UNCHANGED <<mcp_pc, mcp_config, tasks, clients, registry_state, open_connections,
                   tool_registry, in_flight, call_result>>
    /\ UNCHANGED <<transport_vars, lock_vars, bash_vars, agentic_vars, context_vars>>

\* gateway service.rs lines 152-154 with ToolRegistry::register, provider
\* lib.rs lines 55-59: the next bridged tool is inserted under its name
register_mcp_tool ==
    /\ bridged /= <<>>
    /\ tool_registry' = HashMap_insert(tool_registry, definition_name(Head(bridged)),
                                       Head(bridged))
    /\ bridged' = Tail(bridged)
    /\ UNCHANGED <<mcp_pc, mcp_config, tasks, clients, registry_state, open_connections,
                   in_flight, call_result>>
    /\ UNCHANGED <<transport_vars, lock_vars, bash_vars, agentic_vars, context_vars>>

\* The MCPToolRegistry value goes out of scope (gateway service.rs line 97,
\* the end of the block that made it).  The connection map is behind an Arc:
\* it is freed, and the connections with it, when the last holder goes, and
\* every bridged tool is a holder
registry_drop ==
    /\ registry_state = "alive"
    \* a call of execute in flight borrows the registry
    /\ IF IsSome(in_flight) THEN Unwrap(in_flight).via = "bridge" ELSE TRUE
    /\ registry_state' = "dropped"
    /\ IF WrappersHeld = {}
       THEN clients' = <<>> /\ open_connections' = {}
       ELSE UNCHANGED <<clients, open_connections>>
    /\ UNCHANGED <<mcp_pc, mcp_config, tasks, bridged, tool_registry, in_flight, call_result>>
    /\ UNCHANGED <<transport_vars, lock_vars, bash_vars, agentic_vars, context_vars>>

\* a call that was made: who made it, what it asked for and with which
\* arguments, what was sent to a server for it, what the server answered,
\* what the call returned
CallRecord(via, target, args, sent, result) ==
    [via |-> via, target |-> target, args |-> args, request |-> sent, answer |-> None,
     result |-> result]

\* MCPClient::call_tool up to the await of the peer, lines 252-279
call_tool(server, tool_name, args) ==
    /\ server \in DOMAIN clients
    /\ in_flight = None
    /\ in_flight' = Some(CallRecord("client", server, args,
                                    Some(CallToolRequestParams(server, tool_name, args)), None))
    /\ call_result' = None
    /\ UNCHANGED <<mcp_pc, mcp_config, tasks, clients, registry_state, open_connections,
                   bridged, tool_registry>>
    /\ UNCHANGED <<transport_vars, lock_vars, bash_vars, agentic_vars, context_vars>>

\* an execute that hands the call to some connected server when the named
\* one is missing
MCPToolRegistry_execute_Fallback(server_name, tool_name, args) ==
    /\ registry_state = "alive"
    /\ in_flight = None
    /\ IF clients /= <<>>
       THEN LET s == IF server_name \in DOMAIN clients THEN server_name
                     ELSE CHOOSE n \in DOMAIN clients : TRUE
            IN  /\ in_flight' = Some(CallRecord("registry", server_name, args,
                                       Some(CallToolRequestParams(s, tool_name, args)), None))
                /\ call_result' = None
       ELSE /\ call_result' = Some(CallRecord("registry", server_name, args, None,
                                     Some(Failure(MCPError_ToolNotFound(server_name, tool_name)))))
            /\ UNCHANGED in_flight
    /\ UNCHANGED <<mcp_pc, mcp_config, tasks, clients, registry_state, open_connections,
                   bridged, tool_registry>>
    /\ UNCHANGED <<transport_vars, lock_vars, bash_vars, agentic_vars, context_vars>>

\* MCPToolRegistry::execute, lines 84-100
MCPToolRegistry_execute(server_name, tool_name, args) ==
    /\ registry_state = "alive"
    /\ in_flight = None
    /\ IF server_name \in DOMAIN clients
       THEN /\ in_flight' = Some(CallRecord("registry", server_name, args,
                                   Some(CallToolRequestParams(server_name, tool_name, args)),
                                   None))
            /\ call_result' = None
       ELSE /\ call_result' = Some(CallRecord("registry", server_name, args, None,
                                     Some(Failure(MCPError_ToolNotFound(server_name, tool_name)))))
            /\ UNCHANGED in_flight
    /\ UNCHANGED <<mcp_pc, mcp_config, tasks, clients, registry_state, open_connections,
                   bridged, tool_registry>>
    /\ UNCHANGED <<transport_vars, lock_vars, bash_vars, agentic_vars, context_vars>>

\* MCPToolWrapper::execute, tool_bridge.rs lines 37-59, up to the await of
\* call_tool
MCPToolWrapper_execute(wrapper, args) ==
    /\ in_flight = None
    /\ IF wrapper.server_name \in DOMAIN clients
       THEN /\ in_flight' = Some(CallRecord("bridge", wrapper, args,
                                   Some(CallToolRequestParams(wrapper.server_name,
                                                              wrapper.tool_name, args)),
                                   None))
            /\ call_result' = None
       ELSE /\ call_result' = Some(CallRecord("bridge", wrapper, args, None,
                                     Some(Failure(anyhow("MCP server '{}' not available",
                                                         Some(wrapper.server_name))))))
            /\ UNCHANGED in_flight
    /\ UNCHANGED <<mcp_pc, mcp_config, tasks, clients, registry_state, open_connections,
                   bridged, tool_registry>>
    /\ UNCHANGED <<transport_vars, lock_vars, bash_vars, agentic_vars, context_vars>>

\* ToolRegistry::execute, provider lib.rs lines 72-77, on the merged
\* registry: a bridged tool runs MCPToolWrapper::execute, a built-in tool
\* runs in the process
tools_execute(name, args) ==
    /\ tool_registry /= <<>>
    /\ in_flight = None
    /\ IF name \notin DOMAIN tool_registry
       THEN /\ call_result' = Some(CallRecord("tools", name, args, None,
                                              Some(Failure(anyhow("Unknown tool: {}", Some(name))))))
            /\ UNCHANGED <<mcp_pc, mcp_config, tasks, clients, registry_state,
                           open_connections, bridged, tool_registry, in_flight>>
            /\ UNCHANGED <<transport_vars, lock_vars, bash_vars, agentic_vars, context_vars>>
       ELSE IF tool_registry[name].kind = "local"
       THEN /\ call_result' = Some(CallRecord("tools", name, args, None,
                                              Some(Success([by |-> tool_registry[name]]))))
            /\ UNCHANGED <<mcp_pc, mcp_config, tasks, clients, registry_state,
                           open_connections, bridged, tool_registry, in_flight>>
            /\ UNCHANGED <<transport_vars, lock_vars, bash_vars, agentic_vars, context_vars>>
       ELSE MCPToolWrapper_execute(tool_registry[name], args)

\* lines 279-321 of client.rs: the peer answers and call_tool returns; the
\* bridge wraps an error of call_tool (tool_bridge.rs line 56)
peer_answers(response) ==
    /\ IsSome(in_flight)
    /\ LET call == Unwrap(in_flight)
           params == Unwrap(call.request)
           r == call_tool_result(params.server, params.name, response)
       IN  call_result' =
               Some([call EXCEPT !.answer = Some(response), !.result =
                        Some(IF call.via = "bridge" /\ ~r.ok
                             THEN Failure(anyhow("MCP tool call failed: {}", Some(r.error)))
                             ELSE r)])
    /\ in_flight' = None
    /\ UNCHANGED <<mcp_pc, mcp_config, tasks, clients, registry_state, open_connections,
                   bridged, tool_registry>>
    /\ UNCHANGED <<transport_vars, lock_vars, bash_vars, agentic_vars, context_vars>>

-----------------------------------------------------------------------------
(* The transport of one server: MCPServerConfig::detect_transport          *)
(* (config.rs) and MCPClient::start (client.rs).  Commands and URLs are    *)
(* sequences of characters; env and headers are left out.                  *)

\* str::starts_with
starts_with(s, prefix) ==
    Len(s) >= Len(prefix) /\ SubSeq(s, 1, Len(prefix)) = prefix

RECURSIVE split_whitespace(_)
\* str::split_whitespace: the maximal runs of characters that are not
\* whitespace
split_whitespace(s) ==
    LET t == TrimStart(s)
        stops == {i \in 1..Len(t) : t[i] \in Whitespace}
        n == IF stops = {} THEN Len(t)
             ELSE (CHOOSE i \in stops : \A j \in stops : i <= j) - 1
    IN  IF t = <<>> THEN <<>>
        ELSE <<SubSeq(t, 1, n)>> \o split_whitespace(SubSeq(t, n + 1, Len(t)))

\* MCPServerConfig and TransportConfig, config.rs lines 33-84
SimpleServer(s) == [form |-> "Simple", s |-> s]
AdvancedStdio(command, args, startup_timeout) ==
    [form |-> "Advanced", transport |-> "Stdio", command |-> command, args |-> args,
     startup_timeout |-> startup_timeout]
AdvancedHTTP(url, startup_timeout) ==
    [form |-> "Advanced", transport |-> "HTTP", url |-> url,
     startup_timeout |-> startup_timeout]

\* TransportType, config.rs lines 86-100
TransportType_Stdio(program, args) == [type |-> "Stdio", program |-> program, args |-> args]
TransportType_HTTP(url) == [type |-> "HTTP", url |-> url]

Str_http == <<"h","t","t","p",":","/","/">>
Str_https == <<"h","t","t","p","s",":","/","/">>

\* program and arguments of a command line, lines 112-117 and 129-134
split_command(command) ==
    LET parts == split_whitespace(command)
    IN  TransportType_Stdio(IF parts = <<>> THEN command ELSE parts[1],
                            IF parts = <<>> THEN <<>> ELSE Tail(parts))

\* MCPServerConfig::detect_transport, lines 105-154
detect_transport(config) ==
    IF config.form = "Simple"
    THEN IF starts_with(config.s, Str_http) \/ starts_with(config.s, Str_https)
         THEN TransportType_HTTP(config.s)
         ELSE split_command(config.s)
    ELSE IF config.transport = "Stdio"
         THEN IF config.args = <<>>
              THEN split_command(config.command)
              ELSE TransportType_Stdio(config.command, config.args)
         ELSE TransportType_HTTP(config.url)

\* The descriptors of the model
Cmd_Empty == <<>>   \* ''
Cmd_Space == <<" ">>   \* ' '
Cmd_TabSpace == <<"\t"," ">>   \* '\t '
Cmd_Npx == <<"n","p","x">>   \* 'npx'
Cmd_NpxArgs == <<"n","p","x"," ","-","y"," ","s","r","v">>   \* 'npx -y srv'
Cmd_PaddedNpx == <<" ","n","p","x"," ">>   \* ' npx '
Cmd_HttpUrl == <<"h","t","t","p",":","/","/","h">>   \* 'http://h'
Cmd_HttpsUrl == <<"h","t","t","p","s",":","/","/","h">>   \* 'https://h'
Cmd_Httpx == <<"h","t","t","p","x">>   \* 'httpx'
ServerCommands ==
    {Cmd_Empty, Cmd_Space, Cmd_TabSpace, Cmd_Npx, Cmd_NpxArgs,
     Cmd_PaddedNpx, Cmd_HttpUrl, Cmd_HttpsUrl, Cmd_Httpx}
ArgLists == {<<>>, << <<"-","y">> >>}
ServerDescriptors ==
    {SimpleServer(s) : s \in ServerCommands}
    \cup {AdvancedStdio(c, a, t) : c \in ServerCommands, a \in ArgLists, t \in {None, Some(30)}}
    \cup {AdvancedHTTP(u, t) : u \in {Cmd_HttpUrl, Cmd_HttpsUrl}, t \in {None, Some(30)}}

\* MCPError::StartupFailed, error.rs
MCPError_StartupFailed(server, reason) ==
    [kind |-> "StartupFailed", server |-> server, reason |-> reason]

\* MCPClient::start, client.rs lines 75-79: the transport is detected from
\* the descriptor; there is no other check of the descriptor
MCPClient_start(config) ==
    /\ start_config = None
    /\ start_config' = Some(config)
    /\ start_transport_type' = Some(detect_transport(config))
    /\ UNCHANGED <<start_attempts, start_outcome>>
    /\ UNCHANGED <<mcp_pc, mcp_config, tasks, clients, tool_vars, lock_vars>>
    /\ UNCHANGED <<bash_vars, agentic_vars, context_vars>>

\* a program the operating system can run: it has a name, and the name is
\* not made of whitespace
Runnable(program) == Trim(program) /= <<>>

\* start_stdio, client.rs lines 113-149: the command is built and spawned
\* by TokioChildProcess::new, which fails if the program cannot be run
start_stdio(spawned) ==
    /\ IsSome(start_transport_type)
    /\ Unwrap(start_transport_type).type = "Stdio"
    /\ start_attempts = <<>>
    /\ spawned => Runnable(Unwrap(start_transport_type).program)
    /\ start_attempts' = <<Unwrap(start_transport_type)>>
    /\ start_outcome' =
           IF spawned THEN Some(Success("spawned"))
           ELSE Some(Failure(MCPError_StartupFailed("a", "Failed to spawn '{program}': {e}")))
    /\ UNCHANGED <<start_config, start_transport_type>>
    /\ UNCHANGED <<mcp_pc, mcp_config, tasks, clients, tool_vars, lock_vars>>
    /\ UNCHANGED <<bash_vars, agentic_vars, context_vars>>

\* start_http, client.rs lines 180-205: the session is opened on the URL
start_http(connected) ==
    /\ IsSome(start_transport_type)
    /\ Unwrap(start_transport_type).type = "HTTP"
    /\ start_attempts = <<>>
    /\ start_attempts' = <<Unwrap(start_transport_type)>>
    /\ start_outcome' =
           IF connected THEN Some(Success("connected"))
           ELSE Some(Failure([kind |-> "Sdk", server |-> "a",
                              reason |-> "Failed to initialize MCP for '{name}': {e}"]))
    /\ UNCHANGED <<start_config, start_transport_type>>
    /\ UNCHANGED <<mcp_pc, mcp_config, tasks, clients, tool_vars, lock_vars>>
    /\ UNCHANGED <<bash_vars, agentic_vars, context_vars>>

-----------------------------------------------------------------------------
(* The context manager: crates/rustclaw-provider/src/context.rs.           *)
(* Its strings are TLA+ strings: the code reads only their length (Len)    *)
(* and builds them by concatenation (\o).                                  *)

\* Bounds of the model: the ids handed out (one per turn and per summary),
\* the summaries applied, the short turns held among the standard ones, and
\* the turns of the conversations on which the estimate alone is examined
MaxIds == 12
MaxSummaries == 1
MaxShortTurns == 1
MaxEstimatedTurns == 1
\* and the calls of get_messages in one conversation
MaxMessageCalls == 2

\* context.rs lines 23-29
DEFAULT_CONTEXT_WINDOW == 128000
COMPRESSION_THRESHOLD == 75     \* 0.75, in hundredths
RECENT_TURNS_TO_KEEP == 10

\* line 140 and line 142: the placeholder of a masked turn and its cost
MaskedContent == "[Previous context omitted for brevity]"
MaskedTokenCount == 10

Strategies == {"None", "SlidingWindow", "Summarization", "Hybrid"}
MaxTokensChoices == {1000}

Max(a, b) == IF a >= b THEN a ELSE b
\* usize::saturating_sub
saturating_sub(a, b) == IF a >= b THEN a - b ELSE 0

RECURSIVE Repeat(_, _)
\* str::repeat
Repeat(s, n) ==
    IF n = 0 THEN ""
    ELSE LET half == Repeat(s, n \div 2)
         IN  IF n % 2 = 1 THEN half \o half \o s ELSE half \o half

\* ConversationTurn::user, ::assistant, ::assistant_with_tools, ::tool_result
\* (the timestamp is left out; the id stands for Uuid::new_v4)
user(id, content) ==
    [id |-> id, role |-> "user", content |-> Some(content), tool_calls |-> None,
     tool_call_id |-> None, token_count |-> 0, is_summarized |-> FALSE, is_masked |-> FALSE]
assistant(id, content) ==
    [id |-> id, role |-> "assistant", content |-> Some(content), tool_calls |-> None,
     tool_call_id |-> None, token_count |-> 0, is_summarized |-> FALSE, is_masked |-> FALSE]
assistant_with_tools(id, content, tool_calls) ==
    [id |-> id, role |-> "assistant", content |-> content, tool_calls |-> Some(tool_calls),
     tool_call_id |-> None, token_count |-> 0, is_summarized |-> FALSE, is_masked |-> FALSE]
tool_result(id, tool_call_id, content) ==
    [id |-> id, role |-> "tool", content |-> Some(content), tool_calls |-> None,
     tool_call_id |-> Some(tool_call_id), token_count |-> 0, is_summarized |-> FALSE,
     is_masked |-> FALSE]

RECURSIVE CallTokens(_)
\* lines 116-119: the loop over the tool calls of a turn
CallTokens(calls) ==
    IF calls = <<>> THEN 0
    ELSE (Len(calls[1].function.name) \div 4) + (Len(calls[1].function.arguments) \div 4)
         + CallTokens(Tail(calls))

\* the estimate without its floor of one token
estimate_tokens_NoMinimum(turn) ==
    [turn EXCEPT !.token_count =
        (IF IsSome(turn.content) THEN Len(Unwrap(turn.content)) \div 4 ELSE 0)
        + (IF IsSome(turn.tool_calls) THEN CallTokens(Unwrap(turn.tool_calls)) ELSE 0)]

\* ConversationTurn::estimate_tokens, lines 110-123: the turn with its
\* token_count set
estimate_tokens(turn) ==
    [turn EXCEPT !.token_count =
        Max((IF IsSome(turn.content) THEN Len(Unwrap(turn.content)) \div 4 ELSE 0)
            + (IF IsSome(turn.tool_calls) THEN CallTokens(Unwrap(turn.tool_calls)) ELSE 0),
            1)]

\* ConversationTurn::masked, lines 137-144
masked(turn) ==
    [turn EXCEPT !.is_masked = TRUE,
                 !.content = Some(MaskedContent),
                 !.tool_calls = None,
                 !.token_count = MaskedTokenCount]

\* the threshold without the factor 0.75
should_compress_AtFullBudget(ts, total, max, recent) ==
    total > max /\ Len(ts) > recent

\* ContextManager::should_compress, lines 240-243; the product in f32 is
\* exact for the budgets of the model
should_compress(ts, total, max, recent) ==
    LET threshold == (max * COMPRESSION_THRESHOLD) \div 100
    IN  total > threshold /\ Len(ts) > recent

RECURSIVE SumTokens(_)
SumTokens(counts) ==
    IF counts = <<>> THEN 0 ELSE counts[1] + SumTokens(Tail(counts))

\* the sliding window masking every old turn, masked and summary turns too
apply_sliding_window_NoSkip(ts, total, recent) ==
    LET turns_to_mask == saturating_sub(Len(ts), recent)
        saved == [i \in 1..turns_to_mask |->
                    saturating_sub(ts[i].token_count, masked(ts[i]).token_count)]
    IN  [turns |-> [i \in 1..Len(ts) |-> IF i <= turns_to_mask THEN masked(ts[i]) ELSE ts[i]],
         total_tokens |-> saturating_sub(total, SumTokens(saved))]

\* ContextManager::apply_sliding_window, lines 265-291: the turns and the
\* running total it leaves
apply_sliding_window(ts, total, recent) ==
    LET turns_to_mask == saturating_sub(Len(ts), recent)
        Maskable(i) == ~ts[i].is_masked /\ ~ts[i].is_summarized
        saved == [i \in 1..turns_to_mask |->
                    IF Maskable(i)
                    THEN saturating_sub(ts[i].token_count, masked(ts[i]).token_count)
                    ELSE 0]
    IN  [turns |-> [i \in 1..Len(ts) |->
                        IF i <= turns_to_mask /\ Maskable(i) THEN masked(ts[i]) ELSE ts[i]],
         total_tokens |-> saturating_sub(total, SumTokens(saved))]

\* lines 299-302: the test of the log line "summarization recommended";
\* the product in f32 is exact for the budgets of the model
summarization_recommended(total, max) == total > (max * 90) \div 100

\* hybrid compression that only signals and masks nothing
apply_hybrid_compression_SignalOnly(ts, total, recent) ==
    [turns |-> ts, total_tokens |-> total]

\* ContextManager::apply_hybrid_compression, lines 294-303: the sliding
\* window, then a log line if the total is still above 90%
apply_hybrid_compression(ts, total, recent) == apply_sliding_window(ts, total, recent)

\* ContextManager::compress, lines 246-262
compress(strat, ts, total, recent) ==
    CASE strat = "None" -> [turns |-> ts, total_tokens |-> total]
      [] strat = "SlidingWindow" -> apply_sliding_window(ts, total, recent)
      [] strat = "Summarization" -> [turns |-> ts, total_tokens |-> total]
      [] strat = "Hybrid" -> apply_hybrid_compression(ts, total, recent)

\* ContextManager::get_turns_to_summarize, lines 306-314: the turns that
\* are not among the latest max(recent_turns, 5) and are not summaries,
\* newest first
get_turns_to_summarize(ts, recent) ==
    LET skip_recent == Max(recent, 5)
        n == saturating_sub(Len(ts), skip_recent)
        reversed == [k \in 1..n |-> ts[n + 1 - k]]
    IN  SelectSeq(reversed, LAMBDA t : ~t.is_summarized)

IdsOf(ts) == {ts[i].id : i \in 1..Len(ts)}

\* ConversationSummary
ConversationSummary(id, turns_covered, summary, token_count) ==
    [id |-> id, turns_covered |-> turns_covered, summary |-> summary,
     key_facts |-> <<>>, token_count |-> token_count]

\* rustclaw-types ToolCall
ToolCall(id, name, arguments) ==
    [id |-> id, function |-> [name |-> name, arguments |-> arguments]]

\* The turns handed to add_turn: the standard one (a user turn of 70
\* tokens) and a short one (an assistant turn of 5 tokens, a tool call
\* without text)
StandardContent == Repeat("x", 280)
ShortToolCalls == << ToolCall("call_1", "echo", "{\"message\":\"hi\"}") >>
ContextTurns(id) ==
    {user(id, StandardContent), assistant_with_tools(id, None, ShortToolCalls)}

\* The summaries handed to apply_summary: of the turns get_turns_to_summarize
\* names, or of every turn held
SummaryInputs(id) ==
    { ConversationSummary(id, covered, "earlier talk", 60) :
        covered \in {IdsOf(get_turns_to_summarize(turns, recent_turns)), IdsOf(turns)} }

\* The turns on which the estimate is examined: every constructor, contents
\* of several lengths, up to two tool calls
EstimateContents ==
    {"", "abc", "abcd", "Hello world, this is a test message.", StandardContent}
EstimateCalls ==
    { ToolCall("call_1", "echo", "{\"message\":\"hi\"}"),
      ToolCall("call_2", "ls", "{}"),
      ToolCall("call_3", "read_file", ""),
      ToolCall("call_4", "", "{\"path\":\"/tmp/a\"}") }
EstimateCallLists == UNION { [1..n -> EstimateCalls] : n \in 0..2 }
TurnInputs(id) ==
    {user(id, c) : c \in EstimateContents}
    \cup {assistant(id, c) : c \in EstimateContents}
    \cup {tool_result(id, "call_1", c) : c \in EstimateContents}
    \cup {assistant_with_tools(id, c, calls) :
            c \in {None} \cup {Some(x) : x \in EstimateContents},
            calls \in EstimateCallLists}

\* a manager that has only been constructed
Fresh == turns = <<>> /\ summaries = <<>> /\ next_id = 1

\* ContextManager::with_strategy, lines 212-215 (a builder call, made right
\* after ContextManager::new)
with_strategy(s) ==
    /\ Fresh
    /\ strategy' = s
    /\ UNCHANGED <<turns, summaries, max_tokens, recent_turns, total_tokens, next_id>>
    /\ UNCHANGED <<ctx_system_prompt, got_messages, messages_calls, bash_vars, agentic_vars, mcp_vars>>

\* ContextManager::with_max_tokens, lines 217-220
with_max_tokens(m) ==
    /\ Fresh
    /\ max_tokens' = m
    /\ UNCHANGED <<turns, summaries, strategy, recent_turns, total_tokens, next_id>>
    /\ UNCHANGED <<ctx_system_prompt, got_messages, messages_calls, bash_vars, agentic_vars, mcp_vars>>

\* add_turn compressing with a recent window one turn too short
add_turn_NarrowWindow(turn) ==
    /\ turn.id = next_id
    /\ LET t == estimate_tokens(turn)
           ts == Append(turns, t)
           total == total_tokens + t.token_count
           after == IF should_compress(ts, total, max_tokens, recent_turns)
                    THEN compress(strategy, ts, total, recent_turns - 1)
                    ELSE [turns |-> ts, total_tokens |-> total]
       IN  /\ turns' = after.turns
           /\ total_tokens' = after.total_tokens
    /\ next_id' = next_id + 1
    /\ UNCHANGED <<summaries, strategy, max_tokens, recent_turns>>
    /\ UNCHANGED <<ctx_system_prompt, got_messages, messages_calls, bash_vars, agentic_vars, mcp_vars>>

\* ContextManager::add_turn, lines 228-237, with the compression it calls
add_turn(turn) ==
    /\ turn.id = next_id
    /\ LET t == estimate_tokens(turn)
           ts == Append(turns, t)
           total == total_tokens + t.token_count
           after == IF should_compress(ts, total, max_tokens, recent_turns)
                    THEN compress(strategy, ts, total, recent_turns)
                    ELSE [turns |-> ts, total_tokens |-> total]
       IN  /\ turns' = after.turns
           /\ total_tokens' = after.total_tokens
    /\ next_id' = next_id + 1
    /\ UNCHANGED <<summaries, strategy, max_tokens, recent_turns>>
    /\ UNCHANGED <<ctx_system_prompt, got_messages, messages_calls, bash_vars, agentic_vars, mcp_vars>>

\* the summary turn pushed to the back of the history
apply_summary_PushBack(summary) ==
    /\ summary.id = next_id
    /\ LET Covered(t) == t.id \in summary.turns_covered
           removed == SelectSeq(turns, Covered)
           removed_tokens == SumTokens([i \in 1..Len(removed) |-> removed[i].token_count])
           summary_turn ==
               [id |-> summary.id, role |-> "system",
                content |-> Some("[Conversation Summary]\n" \o summary.summary),
                tool_calls |-> None, tool_call_id |-> None,
                token_count |-> summary.token_count,
                is_summarized |-> TRUE, is_masked |-> FALSE]
       IN  /\ turns' = SelectSeq(turns, LAMBDA t : ~Covered(t)) \o <<summary_turn>>
           /\ total_tokens' =
                  saturating_sub(total_tokens, removed_tokens) + summary.token_count
    /\ summaries' = Append(summaries, summary)
    /\ next_id' = next_id + 1
    /\ UNCHANGED <<strategy, max_tokens, recent_turns>>
    /\ UNCHANGED <<ctx_system_prompt, got_messages, messages_calls, bash_vars, agentic_vars, mcp_vars>>

\* ContextManager::apply_summary, lines 317-354
apply_summary(summary) ==
    /\ summary.id = next_id
    /\ LET Covered(t) == t.id \in summary.turns_covered
           removed == SelectSeq(turns, Covered)
           removed_tokens == SumTokens([i \in 1..Len(removed) |-> removed[i].token_count])
           summary_turn ==
               [id |-> summary.id, role |-> "system",
                content |-> Some("[Conversation Summary]\n" \o summary.summary),
                tool_calls |-> None, tool_call_id |-> None,
                token_count |-> summary.token_count,
                is_summarized |-> TRUE, is_masked |-> FALSE]
       IN  /\ turns' = <<summary_turn>> \o SelectSeq(turns, LAMBDA t : ~Covered(t))
           /\ total_tokens' =
                  saturating_sub(total_tokens, removed_tokens) + summary.token_count
    /\ summaries' = Append(summaries, summary)
    /\ next_id' = next_id + 1
    /\ UNCHANGED <<strategy, max_tokens, recent_turns>>
    /\ UNCHANGED <<ctx_system_prompt, got_messages, messages_calls, bash_vars, agentic_vars, mcp_vars>>

\* ChatMessage::system, rustclaw-types lib.rs lines 275-283
ChatMessage_system(content) ==
    [role |-> "system", content |-> Some(content), name |-> None,
     tool_calls |-> None, tool_call_id |-> None]

\* ConversationTurn::to_chat_message, lines 126-134
to_chat_message(turn) ==
    [role |-> turn.role, content |-> turn.content, name |-> None,
     tool_calls |-> turn.tool_calls, tool_call_id |-> turn.tool_call_id]

RECURSIVE join(_, _)
\* [String]::join
join(strs, sep) ==
    IF strs = <<>> THEN ""
    ELSE IF Len(strs) = 1 THEN strs[1]
    ELSE strs[1] \o sep \o join(Tail(strs), sep)

\* ContextManager::get_messages, lines 357-380
get_messages(system, sums, ts) ==
    (IF system /= "" THEN <<ChatMessage_system(system)>> ELSE <<>>)
    \o [i \in 1..Len(sums) |->
            ChatMessage_system("[Previous Conversation Summary]\n" \o sums[i].summary
                               \o "\nKey facts: " \o join(sums[i].key_facts, ", "))]
    \o [i \in 1..Len(ts) |-> to_chat_message(ts[i])]

\* The prompts handed to with_system_prompt and the summaries with key
\* facts handed to apply_summary: of the turns get_turns_to_summarize names,
\* or of the first turn and a turn that was never held (id 0)
SystemPrompts == {"You are a helpful AI assistant."}
KeyFacts == <<"likes tea", "lives in Oslo">>
FactSummaryInputs(id) ==
    { [ConversationSummary(id, covered, "earlier talk", 60) EXCEPT !.key_facts = KeyFacts] :
        covered \in {IdsOf(get_turns_to_summarize(turns, recent_turns)), {0, 1}} }

\* The summaries an external summarizer may hand to apply_summary: of the
\* turns get_turns_to_summarize names, or of the latest recent_turns turns
LatestIds(ts, recent) == {ts[i].id : i \in (saturating_sub(Len(ts), recent) + 1)..Len(ts)}
AnySummaryInputs(id) ==
    { ConversationSummary(id, covered, "earlier talk", 60) :
        covered \in {IdsOf(get_turns_to_summarize(turns, recent_turns)),
                     LatestIds(turns, recent_turns)} }

\* ContextManager::with_system_prompt, lines 222-225
with_system_prompt(p) ==
    /\ ctx_system_prompt' = p
    /\ UNCHANGED <<turns, summaries, strategy, max_tokens, recent_turns, total_tokens,
                   next_id, got_messages, messages_calls>>
    /\ UNCHANGED <<bash_vars, agentic_vars, mcp_vars>>

\* a manager that answers a second call from the first call's result
get_messages_call_Cached ==
    /\ got_messages' = IF IsSome(got_messages) THEN got_messages
                       ELSE Some(get_messages(ctx_system_prompt, summaries, turns))
    /\ messages_calls' = messages_calls + 1
    /\ UNCHANGED <<turns, summaries, strategy, max_tokens, recent_turns, total_tokens,
                   next_id, ctx_system_prompt>>
    /\ UNCHANGED <<bash_vars, agentic_vars, mcp_vars>>

\* a call of get_messages: the manager is read, not changed
get_messages_call ==
    /\ got_messages' = Some(get_messages(ctx_system_prompt, summaries, turns))
    /\ messages_calls' = messages_calls + 1
    /\ UNCHANGED <<turns, summaries, strategy, max_tokens, recent_turns, total_tokens,
                   next_id, ctx_system_prompt>>
    /\ UNCHANGED <<bash_vars, agentic_vars, mcp_vars>>

\* the short turns held
ShortHeld == Cardinality({i \in 1..Len(turns) : turns[i].role = "assistant"})

-----------------------------------------------------------------------------
Init ==
    /\ bash_call = None
    /\ bash_result = None
    /\ spawn_count = 0
    /\ file_call = None
    /\ file_result = None
    /\ file_effect = None
    /\ pc = "idle"
    /\ max_iterations = 0
    /\ messages = <<>>
    /\ prompt = <<>>
    /\ iteration = 0
    /\ tool_results = None
    /\ last_tool_output = None
    /\ ret = None
    /\ responses = <<>>
    /\ last_response = None
    /\ request = None
    /\ tool_execs = 0
    /\ mcp_pc = "idle"
    /\ mcp_config = MCPConfig_default
    /\ tasks = [n \in ServerNames |-> NoTask]
    /\ clients = <<>>
    /\ registry_state = "none"
    /\ open_connections = {}
    /\ bridged = <<>>
    /\ tool_registry = <<>>
    /\ in_flight = None
    /\ call_result = None
    /\ read_guards = <<>>
    /\ read_waiting = {}
    /\ server_count_seen = None
    /\ start_config = None
    /\ start_transport_type = None
    /\ start_attempts = <<>>
    /\ start_outcome = None
    /\ turns = <<>>
    /\ summaries = <<>>
    /\ strategy = "Hybrid"
    /\ max_tokens = DEFAULT_CONTEXT_WINDOW
    /\ recent_turns = RECENT_TURNS_TO_KEEP
    /\ total_tokens = 0
    /\ next_id = 1
    /\ ctx_system_prompt = ""
    /\ got_messages = None
    /\ messages_calls = 0

\* The shell tool called any number of times
NextBash == \E args \in BashArgs : BashTool_execute(args)

SpecBash == Init /\ [][NextBash]_vars

\* The confirmation round trip (the description of a needs_confirmation
\* result asks the loop to put the question to the user and to call again
\* with the flag set): the first call of a command carries no flag, each
\* key being absent or false
NoFlag == {"absent", "false"}
first_call(command, sensitive_key, destructive_key) ==
    /\ IsSome(bash_result) => ~Refused(Unwrap(bash_result))
    /\ BashTool_execute([command |-> Some(command), confirm_sensitive |-> sensitive_key,
                         confirm_destructive |-> destructive_key])

\* the call is made again with the flag the refusal asked for set to true
\* and the flags already set kept
retry_confirmed ==
    /\ IsSome(bash_result)
    /\ Refused(Unwrap(bash_result))
    /\ BashTool_execute(
           IF Unwrap(bash_result).value.confirmation_type = "sensitive_file"
           THEN [Unwrap(bash_call) EXCEPT !.confirm_sensitive = "true"]
           ELSE [Unwrap(bash_call) EXCEPT !.confirm_destructive = "true"])

NextRetry ==
    \/ \E command \in Commands, sensitive_key \in NoFlag, destructive_key \in NoFlag :
           first_call(command, sensitive_key, destructive_key)
    \/ retry_confirmed

SpecRetry == Init /\ [][NextRetry]_vars

\* The loop that was asked to retry does retry
SpecRetryFair == SpecRetry /\ WF_vars(NextRetry)

\* Calls of the file tools, one at a time, on an arbitrary filesystem
NextFiles ==
    \/ \E args \in FileArgs, outcome \in FsOutcomes : ReadFileTool_execute(args, outcome)
    \/ \E args \in FileArgs, outcome \in FsOutcomes : ListDirTool_execute(args, outcome)
    \/ \E args \in FileArgs, exists \in BOOLEAN, outcome \in FsOutcomes :
           WriteFileTool_execute(args, exists, outcome)

SpecFiles == Init /\ [][NextFiles]_vars

\* One run of complete_agentic against an arbitrary endpoint
NextAgentic ==
    \/ \E max \in 0..MaxIterations, msgs \in MessageLists, p \in Prompts :
           AgenticStart(max, msgs, p)
    \/ AgenticRequest
    \/ \E e \in EndpointErrors : AgenticError(e)
    \/ \E content \in Contents : AgenticText(content)
    \/ \E choice \in ToolCallLists : AgenticTools(MakeCalls(iteration + 1, choice))
    \/ AgenticExhausted

SpecAgentic == Init /\ [][NextAgentic]_vars

\* The loop is sequential code and every await of it returns: a run that
\* can take a step takes one
SpecAgenticFair == SpecAgentic /\ WF_vars(NextAgentic)

\* One call of start_all: the environment decides how long each server
\* takes and which step of its startup fails, if any
NextMcp ==
    \/ \E config \in MCPConfigs : start_all_call(config)
    \/ \E name \in ServerNames, latency \in Latencies : start_all_spawn(name, latency)
    \/ \E name \in ServerNames, ok \in BOOLEAN : start_transport(name, ok)
    \/ \E name \in ServerNames, ok \in BOOLEAN : serve(name, ok)
    \/ \E name \in ServerNames, ok \in BOOLEAN : discover_tools(name, ok)
    \/ \E name \in ServerNames : timeout_elapsed(name)
    \/ \E name \in ServerNames : task_finish(name)
    \/ start_all_return

SpecMcp == Init /\ [][NextMcp]_vars

\* The runtime runs every spawned task, a server answers or stays silent
\* but the timer of tokio::time::timeout fires, and start_all is polled
\* again whenever a task ends
SpecMcpFair == SpecMcp /\ WF_vars(NextMcp)

\* One call of start_all, and then callers that use the registry it returned
\* at the same time
NextRegistryInUse ==
    \/ NextMcp
    \/ \E caller \in Callers : MCPToolRegistry_execute_read(caller)
    \/ \E caller \in Callers : MCPToolWrapper_execute_read(caller)
    \/ \E caller \in Callers : execute_returns(caller)
    \/ server_count

SpecRegistryInUse == Init /\ [][NextRegistryInUse]_vars

\* Calls of call_tool on the client of one started server, with arguments
\* and answers of every shape
NextCallTool ==
    \/ \E map \in {m \in StartedRegistries : DOMAIN m = {"a"}} : start_all_completed(map)
    \/ \E server \in ServerNameChoices, args \in ArgValues : call_tool(server, "c", args)
    \/ \E response \in PeerResponses : peer_answers(response)

SpecCallTool == Init /\ [][NextCallTool]_vars

\* The gateway's use of the remote tools: the servers start, their tools
\* are bridged and registered beside the built-in ones, the registry value
\* is dropped at some moment, and tools are called by name, through a
\* wrapper or through the registry
ToolAnswers ==
    {Success(CallToolResult(<<TextContent("done")>>, None)),
     Success(CallToolResult(<<TextContent("done")>>, Some(TRUE)))}
CallableNames == {"a_c", "a_b_c", "read_c", "read_file", "bash", "nope"}
NextTools ==
    \/ \E map \in StartedRegistries : start_all_completed(map)
    \/ gateway_create_default_tools
    \/ \E order \in UNION {IterationOrders(m) : m \in StartedRegistries} :
           to_tool_functions(order)
    \/ register_mcp_tool
    \/ registry_drop
    \/ \E server \in ServerNameChoices : MCPToolRegistry_execute(server, "c", JsonObject(<<>>))
    \/ \E server \in ServerNameChoices :
           MCPToolWrapper_execute(MCPToolWrapper(server, "c"), JsonObject(<<>>))
    \/ \E name \in CallableNames : tools_execute(name, JsonObject(<<>>))
    \/ \E response \in ToolAnswers : peer_answers(response)

SpecTools == Init /\ [][NextTools]_vars

\* The start of one server from any descriptor; the operating system and
\* the network decide whether the attempt succeeds
NextTransport ==
    \/ \E config \in ServerDescriptors : MCPClient_start(config)
    \/ \E spawned \in BOOLEAN : start_stdio(spawned)
    \/ \E connected \in BOOLEAN : start_http(connected)

SpecTransport == Init /\ [][NextTransport]_vars

\* One conversation: the manager is built, then turns are added and
\* summaries applied in any order
NextContext ==
    \/ \E s \in Strategies : with_strategy(s)
    \/ \E m \in MaxTokensChoices : with_max_tokens(m)
    \/ \E turn \in ContextTurns(next_id) :
           /\ next_id <= MaxIds
           /\ turn.role = "assistant" => ShortHeld < MaxShortTurns
           /\ add_turn(turn)
    \/ \E summary \in SummaryInputs(next_id) :
           /\ next_id <= MaxIds
           /\ Len(summaries) < MaxSummaries
           /\ apply_summary(summary)

SpecContext == Init /\ [][NextContext]_vars

\* Turns of every shape added to a manager with the default configuration
NextEstimate ==
    \E turn \in TurnInputs(next_id) :
        /\ Len(turns) < MaxEstimatedTurns
        /\ add_turn(turn)

SpecEstimate == Init /\ [][NextEstimate]_vars

\* One conversation whose messages are fetched at any moment: a prompt and
\* a budget are set, standard turns are added, summaries with key facts are
\* applied
NextMessages ==
    \/ \E m \in MaxTokensChoices : with_max_tokens(m)
    \/ \E p \in SystemPrompts : with_system_prompt(p)
    \/ /\ next_id <= MaxIds
       /\ add_turn(user(next_id, StandardContent))
    \/ \E summary \in FactSummaryInputs(next_id) :
           /\ next_id <= MaxIds
           /\ Len(summaries) < MaxSummaries
           /\ apply_summary(summary)
    \/ /\ messages_calls < MaxMessageCalls
       /\ get_messages_call

SpecMessages == Init /\ [][NextMessages]_vars

\* Conversations under the two masking strategies, with a budget that the
\* recent turns alone fill above 90% and one they do not
HybridBudgets == {750, 1000}
NextHybrid ==
    \/ \E s \in {"SlidingWindow", "Hybrid"} : with_strategy(s)
    \/ \E m \in HybridBudgets : with_max_tokens(m)
    \/ \E turn \in ContextTurns(next_id) :
           /\ next_id <= MaxIds
           /\ turn.role = "assistant" => ShortHeld < MaxShortTurns
           /\ add_turn(turn)

SpecHybrid == Init /\ [][NextHybrid]_vars

\* One conversation summarized from outside: the summary covers the old
\* turns, or the recent ones
NextSummarized ==
    \/ \E m \in MaxTokensChoices : with_max_tokens(m)
    \/ /\ next_id <= MaxIds
       /\ add_turn(user(next_id, StandardContent))
    \/ \E summary \in AnySummaryInputs(next_id) :
           /\ next_id <= MaxIds
           /\ Len(summaries) < MaxSummaries
           /\ apply_summary(summary)

SpecSummarized == Init /\ [][NextSummarized]_vars


-----------------------------------------------------------------------------
(* Properties of the shell tool's gate.  They are stated on the patterns   *)
(* themselves, not through BashGate.                                       *)

MatchesAny(command, patterns) ==
    \E i \in 1..Len(patterns) : Contains(command, patterns[i])

HasCommand(call) == IsSome(call) /\ IsSome(Unwrap(call).command)
CommandOf(call) == Unwrap(Unwrap(call).command)
ConfirmSensitive(call) == Unwrap(call).confirm_sensitive = "true"
ConfirmDestructive(call) == Unwrap(call).confirm_destructive = "true"

\* the classes of the model's commands, computed once
BlockedCommands == {c \in Commands : MatchesAny(c, dangerous)}
SensitiveCommands == {c \in Commands : MatchesAny(c, SENSITIVE_PATTERNS)}
DestructiveCommands == {c \in Commands : MatchesAny(c, destructive_patterns)}

IsBlockedCommand(call) == CommandOf(call) \in BlockedCommands
IsSensitiveCommand(call) == CommandOf(call) \in SensitiveCommands
IsDestructiveCommand(call) == CommandOf(call) \in DestructiveCommands

PassesAllChecks(call) ==
    /\ HasCommand(call)
    /\ ~IsBlockedCommand(call)
    /\ (~IsSensitiveCommand(call) \/ ConfirmSensitive(call))
    /\ (~IsDestructiveCommand(call) \/ ConfirmDestructive(call))

\* shapes of the returned value
IsOkValue(result) == IsSome(result) /\ Unwrap(result).ok
HasKey(result, k) == IsOkValue(result) /\ k \in DOMAIN Unwrap(result).value
IsBlockedResult(result) ==
    /\ HasKey(result, "blocked")
    /\ Unwrap(result).value.blocked = TRUE
    /\ Unwrap(result).value.success = FALSE
    /\ ~HasKey(result, "needs_confirmation")
IsNeedsConfirmation(result, type) ==
    /\ HasKey(result, "needs_confirmation")
    /\ Unwrap(result).value.needs_confirmation = TRUE
    /\ Unwrap(result).value.success = FALSE
    /\ Unwrap(result).value.confirmation_type = type
IsRefusal(result) == HasKey(result, "blocked") \/ HasKey(result, "needs_confirmation")

\* C1: a step spawns a process only for a call that passes the blocked, the
\* sensitive and the destructive check; a call that fails one of them
\* leaves the number of spawned processes unchanged and returns a refusal
\* (or the missing-argument error).
C1_SpawnOnlyAfterAllChecks ==
    [][ /\ (spawn_count' /= spawn_count => PassesAllChecks(bash_call'))
        /\ (~PassesAllChecks(bash_call') =>
                /\ spawn_count' = spawn_count
                /\ (IsRefusal(bash_result') \/ ~IsOkValue(bash_result'))) ]_vars

\* C1 witness: after a process was spawned, a later call that fails a check
\* was refused
C1_Witness ==
    /\ spawn_count = 1
    /\ HasCommand(bash_call)
    /\ ~PassesAllChecks(bash_call)
    /\ IsRefusal(bash_result)

\* C2: a call whose command contains an always-blocked pattern returns the
\* blocked result (blocked = true, success = false) whatever the two
\* confirmation flags are, also when the command matches sensitive or
\* destructive patterns, and no process is spawned for it.
C2_BlockedUnconditionally ==
    [][ (HasCommand(bash_call') /\ IsBlockedCommand(bash_call')) =>
            /\ IsBlockedResult(bash_result')
            /\ spawn_count' = spawn_count ]_vars

\* C2 witness: a command matching a blocked, a sensitive and a destructive
\* pattern, called with both confirmations true, was refused as blocked
C2_Witness ==
    /\ HasCommand(bash_call)
    /\ IsBlockedCommand(bash_call)
    /\ IsSensitiveCommand(bash_call)
    /\ IsDestructiveCommand(bash_call)
    /\ ConfirmSensitive(bash_call)
    /\ ConfirmDestructive(bash_call)
    /\ IsBlockedResult(bash_result)

\* C3 as stated: every call with a sensitive fragment and without
\* confirm_sensitive = true returns needs_confirmation and spawns nothing,
\* and with confirm_sensitive = true and no blocked pattern it spawns the
\* process.
C3_AsStated ==
    [][ (HasCommand(bash_call') /\ IsSensitiveCommand(bash_call')) =>
            /\ (~ConfirmSensitive(bash_call') =>
                    /\ HasKey(bash_result', "needs_confirmation")
                    /\ spawn_count' = spawn_count)
            /\ ((ConfirmSensitive(bash_call') /\ ~IsBlockedCommand(bash_call')) =>
                    spawn_count' = spawn_count + 1) ]_vars

\* C3 (amended): a call with a sensitive fragment and no blocked pattern
\* returns needs_confirmation (sensitive_file) and spawns nothing unless
\* confirm_sensitive = true; with confirm_sensitive = true, no blocked
\* pattern, and no destructive pattern left unconfirmed, the process is
\* spawned.
C3_SensitiveGate ==
    [][ (/\ HasCommand(bash_call')
         /\ IsSensitiveCommand(bash_call')
         /\ ~IsBlockedCommand(bash_call')) =>
            /\ (~ConfirmSensitive(bash_call') =>
                    /\ IsNeedsConfirmation(bash_result', "sensitive_file")
                    /\ spawn_count' = spawn_count)
            /\ ((/\ ConfirmSensitive(bash_call')
                 /\ (~IsDestructiveCommand(bash_call') \/ ConfirmDestructive(bash_call'))) =>
                    /\ spawn_count' = spawn_count + 1
                    /\ ~IsRefusal(bash_result')) ]_vars

\* C3 witness: a command containing ".ssh/" called with
\* confirm_sensitive = true was executed
C3_Witness ==
    /\ HasCommand(bash_call)
    /\ Contains(CommandOf(bash_call), SENSITIVE_PATTERNS[1])
    /\ ConfirmSensitive(bash_call)
    /\ spawn_count = 1
    /\ HasKey(bash_result, "exit_code")

\* C4: for a command that is not blocked, the sensitive gate yields to
\* confirm_sensitive = true alone and the destructive gate to
\* confirm_destructive = true alone, and the destructive gate is reached
\* only when the sensitive gate did not refuse: a sensitive command without
\* confirm_sensitive = true gets "sensitive_file" whatever
\* confirm_destructive is, and a destructive command that passed the
\* sensitive gate gets "destructive" unless confirm_destructive = true.
C4_IndependentFlags ==
    [][ (HasCommand(bash_call') /\ ~IsBlockedCommand(bash_call')) =>
            /\ ((IsSensitiveCommand(bash_call') /\ ~ConfirmSensitive(bash_call')) =>
                    /\ IsNeedsConfirmation(bash_result', "sensitive_file")
                    /\ spawn_count' = spawn_count)
            /\ ((/\ IsDestructiveCommand(bash_call')
                 /\ ~ConfirmDestructive(bash_call')
                 /\ (~IsSensitiveCommand(bash_call') \/ ConfirmSensitive(bash_call'))) =>
                    /\ IsNeedsConfirmation(bash_result', "destructive")
                    /\ spawn_count' = spawn_count) ]_vars

\* C4 witness: a sensitive and destructive command called with only
\* confirm_sensitive = true was refused with type "destructive"
C4_Witness ==
    /\ HasCommand(bash_call)
    /\ ~IsBlockedCommand(bash_call)
    /\ IsSensitiveCommand(bash_call)
    /\ IsDestructiveCommand(bash_call)
    /\ ConfirmSensitive(bash_call)
    /\ ~ConfirmDestructive(bash_call)
    /\ IsNeedsConfirmation(bash_result, "destructive")

-----------------------------------------------------------------------------
(* Properties of the agentic loop                                          *)

Returned == pc = "returned"
LastKind == IF responses = <<>> THEN "none" ELSE responses[Len(responses)]
AllToolCalls == \A i \in 1..Len(responses) : responses[i] = "tool_calls"

AllWhitespace(s) == \A i \in 1..Len(s) : s[i] \in Whitespace
IsBlankContent(content) == content = None \/ AllWhitespace(Unwrap(content))

\* the tool-role messages of a request, in order
ToolMessages(req) == SelectSeq(req, LAMBDA m : m.role = "tool")

\* C5: a run in which every answer of the endpoint carried a tool call has
\* made exactly max_iterations completion calls when it returns (none for
\* max_iterations = 0), and returns the exhaustion sentinel.
C5_ExactlyMaxIterationsCalls ==
    (Returned /\ AllToolCalls) =>
        /\ Len(responses) = max_iterations
        /\ ret = Ok(Sentinel)

\* C5 witness: a run with max_iterations = 2 returned after two answers
\* that both carried tool calls
C5_Witness ==
    /\ Returned
    /\ max_iterations = 2
    /\ responses = <<"tool_calls", "tool_calls">>

\* the completion calls made so far: the answered ones and the one in flight
CompletionCalls == Len(responses) + (IF pc = "awaiting" THEN 1 ELSE 0)

\* C6: every run that is started returns; it never makes more than
\* max_iterations completion calls; only its last answer can be a text-only
\* answer or an error, and a run that returned ended on such an answer or
\* with the cap reached.
C6_Terminates ==
    /\ [](CompletionCalls <= max_iterations)
    /\ [](\A i \in 1..(Len(responses) - 1) : responses[i] = "tool_calls")
    /\ [](Returned =>
            \/ LastKind \in {"text", "error"}
            \/ (AllToolCalls /\ Len(responses) = max_iterations))
    /\ [](LastKind \in {"text", "error"} => Returned)
    /\ ((pc = "running") ~> Returned)

\* C6 witness: a run returned on a text-only answer at its third call
C6_Witness ==
    /\ Returned
    /\ responses = <<"tool_calls", "tool_calls", "text">>

\* C7: when the first answer is a text without tool calls, the run returns
\* after that one completion call, and for a non-empty text it returns
\* exactly that text and no tool was executed.
C7_TextOnFirstIteration ==
    (responses /= <<>> /\ responses[1] = "text") =>
        /\ Returned
        /\ CompletionCalls = 1
        /\ LET content == Unwrap(last_response).content
           IN  (IsSome(content) /\ Unwrap(content) /= <<>>) =>
                   /\ ret = Ok(Unwrap(content))
                   /\ tool_execs = 0

\* C7 witness: a run with max_iterations >= 1 returned the text " ok " of
\* the first answer
C7_Witness ==
    /\ Returned
    /\ max_iterations >= 1
    /\ responses = <<"text">>
    /\ Unwrap(last_response).content = Some(<<" ","o","k"," ">>)
    /\ ret = Ok(<<" ","o","k"," ">>)

\* C8: a run that ends on an answer without tool calls returns the text of
\* the answer, except that for an absent, empty or whitespace-only text it
\* returns the output of the most recent tool execution of the run (the
\* last result fed to that completion call) when there was one, and the
\* empty text when there was none.
C8_BlankTextFallsBackToToolOutput ==
    [][ (responses' /= responses /\ responses'[Len(responses')] = "text") =>
          LET content == Unwrap(last_response').content
              fed == ToolMessages(Unwrap(request))
          IN  /\ pc' = "returned"
              /\ IF IsBlankContent(content) /\ tool_execs > 0
                 THEN ret' = Ok(fed[Len(fed)].content)
                 ELSE ret' = Ok(IF content = None THEN <<>> ELSE Unwrap(content)) ]_vars

\* C8 witness: a whitespace-only final answer, after a response whose two
\* calls failed and then succeeded, was answered with the output of the
\* successful call
C8_Witness ==
    /\ Returned
    /\ responses = <<"tool_calls", "text">>
    /\ Unwrap(last_response).content = Some(<<" ">>)
    /\ tool_execs = 2
    /\ ret = Ok(JsonObjectText(Str_echoed, Str_hi))

\* a call that cannot succeed: unknown tool, arguments that do not parse,
\* or arguments the tool rejects
FailingCall(call) == call.name /= EchoName \/ call.arguments /= ArgsMessage

\* the output is the text of a JSON object {"error":"..."}
IsErrorJson(output) ==
    /\ Len(output) >= 12
    /\ SubSeq(output, 1, 10) = <<"{","\"","e","r","r","o","r","\"",":","\"">>
    /\ SubSeq(output, Len(output) - 1, Len(output)) = <<"\"","}">>

\* C9: after an answer with tool calls the run goes on (it has not
\* returned), whatever the calls did: there is one result per call, with the
\* id of its call, and the output of a failing call is a JSON error object;
\* and the next completion call carries every staged result, failed or not,
\* as a tool-role message with the result's output and id.
C9_ToolErrorsAreResults ==
    [][ /\ (responses' /= responses /\ responses'[Len(responses')] = "tool_calls") =>
                LET calls == Unwrap(last_response').tool_calls
                    results == Unwrap(tool_results')
                IN  /\ IsSome(tool_results')
                    /\ Len(results) = Len(calls)
                    /\ \A k \in 1..Len(calls) :
                          /\ results[k].tool_call_id = calls[k].id
                          /\ FailingCall(calls[k]) <=> IsErrorJson(results[k].output)
                    /\ pc' = "running"
                    /\ ret' = None
        /\ (IsSome(tool_results) /\ pc' = "awaiting") =>
                ToolMessages(Unwrap(request')) =
                    [k \in 1..Len(Unwrap(tool_results)) |->
                        [role |-> "tool",
                         content |-> Unwrap(tool_results)[k].output,
                         tool_call_id |-> Unwrap(tool_results)[k].tool_call_id]]
        /\ (IsSome(tool_results) /\ LoopContinues(iteration, max_iterations)) =>
                pc' = "awaiting" ]_vars

\* C9 witness: a completion call is in flight whose tool-role messages hold
\* the error output of a failed call and the output of a successful one
C9_Witness ==
    /\ pc = "awaiting"
    /\ LET fed == ToolMessages(Unwrap(request))
       IN  /\ Len(fed) = 2
           /\ IsErrorJson(fed[1].content)
           /\ ~IsErrorJson(fed[2].content)

\* C10: an error of the completion endpoint is the last answer of its run:
\* the run has returned that error, the step that received it executed no
\* tool, and after the return no completion call is made and no tool is
\* executed.
C10_EndpointErrorNotRetried ==
    /\ [](\A i \in 1..Len(responses) :
            responses[i] = "error" =>
                /\ i = Len(responses)
                /\ Returned
                /\ ret = Err(Unwrap(last_response).error))
    /\ [][ (responses' /= responses /\ responses'[Len(responses')] = "error") =>
              tool_execs' = tool_execs ]_vars
    /\ [][ Returned => (/\ pc' = "returned"
                        /\ request' = request
                        /\ responses' = responses
                        /\ tool_execs' = tool_execs
                        /\ ret' = ret) ]_vars

\* C10 witness: the second completion call of a run failed, after tools had
\* been executed for the first answer
C10_Witness ==
    /\ Returned
    /\ responses = <<"tool_calls", "error">>
    /\ tool_execs >= 1
    /\ ~Unwrap(ret).ok


\* the latest answer of the endpoint asked for tools
AskedForTools == IsSome(last_response) /\ Unwrap(last_response).kind = "tool_calls"

\* C11: the tool-role messages of a completion call are exactly the results
\* of the calls the previous answer asked for: as many messages as calls,
\* the k-th message carrying the id of the k-th call and the outcome of that
\* call (an error object exactly for a call that cannot succeed); the calls
\* are executed one at a time within the step that received the answer; and
\* the first completion call of a run carries no tool-role message.
C11_ToolMessagesFollowCallOrder ==
    [][ /\ (pc = "running" /\ pc' = "awaiting" /\ AskedForTools) =>
                LET calls == Unwrap(last_response).tool_calls
                    fed == ToolMessages(Unwrap(request'))
                IN  /\ Len(fed) = Len(calls)
                    /\ \A k \in 1..Len(calls) :
                          /\ fed[k].tool_call_id = calls[k].id
                          /\ IsErrorJson(fed[k].content) <=> FailingCall(calls[k])
                          /\ ~FailingCall(calls[k]) =>
                                fed[k].content = JsonObjectText(Str_echoed, Str_hi)
        /\ (pc = "running" /\ pc' = "awaiting" /\ ~AskedForTools) =>
                ToolMessages(Unwrap(request')) = <<>>
        /\ (pc = "awaiting" /\ pc' = "running") =>
                /\ AskedForTools'
                /\ tool_execs' = tool_execs + Len(Unwrap(last_response').tool_calls) ]_vars

\* C11 witness: the completion call in flight carries two tool-role
\* messages with the ids of the two calls of the previous answer, in the
\* order of the calls, the first call having succeeded and the second failed
C11_Witness ==
    /\ pc = "awaiting"
    /\ AskedForTools
    /\ LET calls == Unwrap(last_response).tool_calls
           fed == ToolMessages(Unwrap(request))
       IN  /\ Len(calls) = 2
           /\ calls[1].id /= calls[2].id
           /\ <<fed[1].tool_call_id, fed[2].tool_call_id>> = <<calls[1].id, calls[2].id>>
           /\ ~FailingCall(calls[1])
           /\ FailingCall(calls[2])
           /\ ~IsErrorJson(fed[1].content)
           /\ IsErrorJson(fed[2].content)

-----------------------------------------------------------------------------
(* Properties of the concurrent startup                                    *)

McpReturned == mcp_pc = "returned"

\* what MCPClient::start returned for a server, if it has returned
StartReturned(n) == IsSome(tasks[n].result)
StartSucceeded(n) == StartReturned(n) /\ Unwrap(tasks[n].result).ok
StartFailedWith(n, kind) ==
    /\ StartReturned(n)
    /\ ~Unwrap(tasks[n].result).ok
    /\ Unwrap(tasks[n].result).kind = kind

\* C12: the registry start_all returns holds exactly the servers whose own
\* MCPClient::start succeeded, each under its own name with its own client,
\* whatever the other servers did and however the tasks interleave (with no
\* server configured, or none started, that is the empty registry); and an
\* entry of the connection map, once inserted, is never removed or replaced
\* by the startup of another server.
C12_StartupIsolation ==
    /\ [](McpReturned =>
            /\ DOMAIN clients = {n \in Configured : StartSucceeded(n)}
            /\ \A n \in DOMAIN clients :
                  /\ clients[n].name = n
                  /\ clients[n] = Unwrap(tasks[n].result))
    /\ [][ \A n \in DOMAIN clients :
              n \in DOMAIN clients' /\ clients'[n] = clients[n] ]_vars

\* C12 witness: of two servers the first failed to spawn and the second is
\* in the registry start_all returned
C12_Witness ==
    /\ McpReturned
    /\ Configured = {1, 2}
    /\ StartFailedWith(1, "StartupFailed")
    /\ DOMAIN clients = {2}

\* C13: when start_all has returned, every configured server's task was
\* spawned and has ended, and from then on the connection map and the
\* tasks do not change.
C13_ReadyOnlyAfterAllTasks ==
    /\ [](McpReturned => \A n \in Configured : tasks[n].phase = "done")
    /\ [][ McpReturned => (clients' = clients /\ tasks' = tasks) ]_vars

\* C13 witness: start_all has returned after the tasks of two servers, both
\* started, have ended
C13_Witness ==
    /\ McpReturned
    /\ Configured = {1, 2}
    /\ DOMAIN clients = {1, 2}
    /\ \A n \in Configured : tasks[n].phase = "done"

\* C14: a server that needs longer than the timeout handed to
\* MCPClient::start resolves in one way only, with the StartupTimeout error
\* naming it, at whatever step of its startup the deadline finds it; a server
\* that timed out is never in the connection map; and start_all, once called,
\* returns.
C14_TimeoutCancelsWholesale ==
    /\ [][ \A n \in ServerNames :
              ( /\ InProgress(tasks[n])
                /\ tasks[n].latency > tasks[n].timeout
                /\ tasks'[n].phase /= tasks[n].phase ) =>
                  \/ InProgress(tasks'[n])
                  \/ /\ tasks'[n].phase = "resolved"
                     /\ tasks'[n].result =
                            Some([ok |-> FALSE, kind |-> "StartupTimeout", server |-> n]) ]_vars
    /\ [](\A n \in ServerNames :
            StartFailedWith(n, "StartupTimeout") => n \notin DOMAIN clients)
    /\ ((mcp_pc /= "idle") ~> McpReturned)

\* C14 witness: start_all has returned; the first server timed out and is
\* absent, the second is present
C14_Witness ==
    /\ McpReturned
    /\ Configured = {1, 2}
    /\ StartFailedWith(1, "StartupTimeout")
    /\ DOMAIN clients = {2}

\* the startup timeout the configuration asks for: the server's own, else
\* the global one of MCPConfig
ConfiguredTimeout(n) ==
    LET c == mcp_config.servers[n]
    IN  IF c.form = "Advanced" /\ c.startup_timeout /= None
        THEN Unwrap(c.startup_timeout)
        ELSE mcp_config.startup_timeout

\* C15: the timeout start_all applies to a server is the server's own
\* startup_timeout when the advanced form sets one, and MCPConfig's global
\* startup_timeout otherwise.
C15_TimeoutFallsBackToGlobal ==
    \A n \in ServerNames :
        InProgress(tasks[n]) => tasks[n].timeout = ConfiguredTimeout(n)

-----------------------------------------------------------------------------
(* Properties of the context manager                                       *)

\* the token counts of the held turns that are not summary turns, and of
\* the applied summaries
HeldTokens ==
    SumTokens([i \in 1..Len(turns) |->
                 IF turns[i].is_summarized THEN 0 ELSE turns[i].token_count])
SummaryTokens == SumTokens([k \in 1..Len(summaries) |-> summaries[k].token_count])

\* stats().estimated_tokens, context.rs line 387
EstimatedTokens == total_tokens

\* C16: the estimated tokens of stats() are the sum of the token counts of
\* the held turns and of the applied summaries (a summary is counted once:
\* the turn apply_summary inserts for it is the summary), after any sequence
\* of add_turn and apply_summary calls.
C16_TokenAccounting == EstimatedTokens = HeldTokens + SummaryTokens

\* a step of add_turn, the turn it added, and the turns it masked
IsAddStep == Len(turns') = Len(turns) + 1 /\ summaries' = summaries
AddedTurn == turns'[Len(turns')]
NewlyMasked ==
    {i \in 1..Len(turns) : /\ i <= Len(turns')
                           /\ turns'[i].id = turns[i].id
                           /\ ~turns[i].is_masked
                           /\ turns'[i].is_masked}

\* C19: every turn a step masks costs 10 tokens afterwards and that is no
\* more than it cost before, and the step lowers the running total by the
\* sum of the differences (after counting the added turn).
C19_MaskingShrinks ==
    [][ /\ \A i \in NewlyMasked :
              /\ turns'[i].token_count = 10
              /\ turns'[i].token_count <= turns[i].token_count
        /\ IsAddStep =>
              total_tokens' =
                  total_tokens + AddedTurn.token_count
                  - SumTokens([i \in 1..Len(turns) |->
                                 IF i \in NewlyMasked
                                 THEN turns[i].token_count - turns'[i].token_count
                                 ELSE 0]) ]_vars

\* C17 as stated, for the budget of 1000 tokens with 10 recent turns: an
\* add_turn call of a masking strategy that brings the estimated tokens
\* above 750 while more than 10 turns are held leaves at least one turn
\* masked.
MaskingStrategy == strategy \in {"SlidingWindow", "Hybrid"}
TriggeringAdd ==
    /\ IsAddStep
    /\ MaskingStrategy
    /\ max_tokens = 1000
    /\ recent_turns = 10
    /\ total_tokens + AddedTurn.token_count > 750
    /\ Len(turns') > 10
SomeTurnMasked(ts) == \E i \in 1..Len(ts) : ts[i].is_masked

C17_AsStated == [][ TriggeringAdd => SomeTurnMasked(turns') ]_vars

\* C17, amended: the same, provided some turn older than the 10 most recent
\* ones is not a summary turn inserted by apply_summary (the sliding window
\* never masks a summary turn).
C17_CompressionTrigger ==
    [][ ( /\ TriggeringAdd
          /\ \E i \in 1..(Len(turns') - 10) : ~turns'[i].is_summarized )
        => SomeTurnMasked(turns') ]_vars

\* C17 witness: the eleventh turn of 70 tokens has just been added under a
\* budget of 1000: the total went to 770, the oldest turn was masked and the
\* total is 710
C17_Witness ==
    /\ MaskingStrategy
    /\ max_tokens = 1000
    /\ Len(turns) = 11
    /\ summaries = <<>>
    /\ turns[1].is_masked
    /\ \A i \in 2..11 : ~turns[i].is_masked
    /\ total_tokens = 710

\* C18: a masked turn holds the placeholder, no tool calls and 10 tokens,
\* and a summary turn is never masked; a turn that is masked or is a summary
\* turn is the same in the next state for as long as it is held; and an
\* add_turn call that masks no further turn lowers the total by nothing.
C18_MaskingIdempotent ==
    /\ [](\A i \in 1..Len(turns) :
            /\ turns[i].is_masked =>
                  /\ turns[i].content = Some("[Previous context omitted for brevity]")
                  /\ turns[i].tool_calls = None
                  /\ turns[i].token_count = 10
                  /\ masked(turns[i]) = turns[i]
            /\ turns[i].is_summarized => ~turns[i].is_masked)
    /\ [][ \A i \in 1..Len(turns) : \A j \in 1..Len(turns') :
              ( /\ turns'[j].id = turns[i].id
                /\ turns[i].is_masked \/ turns[i].is_summarized )
              => turns'[j] = turns[i] ]_vars
    /\ [][ (IsAddStep /\ NewlyMasked = {}) =>
              total_tokens' = total_tokens + AddedTurn.token_count ]_vars

\* C18 witness: twelve turns are held, the first a summary turn and the
\* second masked: the compression that masked the second skipped the first
C18_Witness ==
    /\ Len(turns) = 12
    /\ turns[1].is_summarized
    /\ ~turns[1].is_masked
    /\ turns[2].is_masked
    /\ turns[2].content = Some(MaskedContent)

\* the largest q with 4 * q <= n
Quarter(n) == CHOOSE q \in 0..n : 4 * q <= n /\ n < 4 * q + 4

\* the estimate the claim describes
DescribedEstimate(turn) ==
    LET of_content == IF turn.content = None THEN 0 ELSE Quarter(Len(turn.content[1]))
        calls == IF turn.tool_calls = None THEN <<>> ELSE turn.tool_calls[1]
        of_calls == SumTokens([k \in 1..Len(calls) |->
                                  Quarter(Len(calls[k].function.name))
                                  + Quarter(Len(calls[k].function.arguments))])
    IN  IF of_content + of_calls = 0 THEN 1 ELSE of_content + of_calls

\* C20: every turn add_turn added has a token count of at least 1, and the
\* count is the quarter of the length of its content plus, for each tool
\* call, the quarters of the lengths of its name and of its arguments,
\* each rounded down, or 1 if that sum is 0.
C20_EstimateAtLeastOne ==
    \A i \in 1..Len(turns) :
        (~turns[i].is_masked /\ ~turns[i].is_summarized) =>
            /\ turns[i].token_count >= 1
            /\ turns[i].token_count = DescribedEstimate(turns[i])

\* C20 witness: a turn without content and without tool calls was added
\* and counts 1 token
C20_Witness ==
    /\ Len(turns) >= 1
    /\ turns[1].content = None
    /\ turns[1].tool_calls = Some(<<>>)
    /\ turns[1].token_count = 1

-----------------------------------------------------------------------------
(* Properties of summarization and of the messages sent to the endpoint.   *)

\* the held turns that are not among the latest max(recent_turns, 5) and
\* are not summaries, in the order in which they are held (oldest first)
OlderUnsummarized ==
    LET n == saturating_sub(Len(turns), Max(recent_turns, 5))
    IN  SelectSeq(SubSeq(turns, 1, n), LAMBDA t : ~t.is_summarized)

\* C21: get_turns_to_summarize returns exactly the held turns older than
\* the max(recent_turns, 5) most recent ones that are not yet summarized,
\* listed oldest first.
C21_TurnsToSummarizeOldestFirst ==
    get_turns_to_summarize(turns, recent_turns) = OlderUnsummarized

\* a step of apply_summary and the summary it applied
IsSummaryStep == Len(summaries') = Len(summaries) + 1
AppliedSummary == summaries'[Len(summaries')]

\* C22: apply_summary removes exactly the held turns whose id is in the
\* covered set (a covered id that matches no held turn removes nothing),
\* keeps every other turn unchanged and in the same relative order, and
\* inserts one system-role turn holding the summary text at the front; the
\* call returns no error, and the summary is recorded.
C22_ApplySummaryFrame ==
    [][IsSummaryStep =>
        LET covered == AppliedSummary.turns_covered
            kept == {i \in 1..Len(turns) : turns[i].id \notin covered}
        IN  /\ Len(turns') = 1 + Cardinality(kept)
            /\ Tail(turns') = SelectSeq(turns, LAMBDA t : t.id \notin covered)
            /\ \A j \in 2..Len(turns') : turns'[j].id \notin covered
            /\ turns'[1].role = "system"
            /\ turns'[1].id = AppliedSummary.id
            /\ turns'[1].content =
                   Some("[Conversation Summary]\n" \o AppliedSummary.summary)
            /\ summaries' = Append(summaries, AppliedSummary)]_vars

\* a summary was applied whose covered set named a turn never held, it
\* removed a held turn, and other turns survive beside the summary turn
C22_Witness ==
    /\ summaries /= <<>>
    /\ 0 \in summaries[1].turns_covered
    /\ next_id - 1 > Len(turns)
    /\ Len(turns) > 1

\* a step that is a call of get_messages, and what the call returned
IsMessagesCall == messages_calls' = messages_calls + 1
ReturnedMessages == Unwrap(got_messages')

-----------------------------------------------------------------------------
(* Properties of the remote tools in use.                                  *)

\* the server a call names: the registry is given the name, a bridged tool
\* carries it
NamedServer(call) ==
    IF call.via = "bridge" THEN call.target.server_name ELSE call.target

\* a step in which a call goes to a server, and one in which a call made
\* through the registry or a bridged tool returns at once
IsForwardStep == in_flight = None /\ IsSome(in_flight')
IsImmediateReturn ==
    /\ in_flight = None /\ in_flight' = None
    /\ call_result' /= call_result
    /\ IsSome(call_result')
    /\ Unwrap(call_result').via \in {"registry", "bridge"}

\* C24: a call for a server that is not in the connection map fails at
\* once with a recoverable error and nothing is sent to any server:
\* MCPToolRegistry::execute returns ToolNotFound, a bridged tool's execute
\* returns an error; only a call for a connected server is forwarded, and
\* to that server.
C24_MissingServerFailsAtOnce ==
    [][/\ IsForwardStep =>
              /\ NamedServer(Unwrap(in_flight')) \in DOMAIN clients
              /\ Unwrap(Unwrap(in_flight').request).server = NamedServer(Unwrap(in_flight'))
       /\ IsImmediateReturn =>
              LET call == Unwrap(call_result')
              IN  /\ NamedServer(call) \notin DOMAIN clients
                  /\ call.request = None
                  /\ IsSome(call.result)
                  /\ ~Unwrap(call.result).ok
                  /\ call.via = "registry" =>
                         Unwrap(call.result).error.kind = "ToolNotFound"]_vars

\* execute was called for a server that is not connected while another one
\* is, and returned ToolNotFound with nothing forwarded
C24_Witness ==
    /\ IsSome(call_result)
    /\ Unwrap(call_result).via = "registry"
    /\ Unwrap(call_result).target \notin DOMAIN clients
    /\ clients /= <<>>
    /\ Unwrap(call_result).request = None
    /\ Unwrap(call_result).result =
           Some(Failure(MCPError_ToolNotFound(Unwrap(call_result).target, "c")))
    /\ in_flight = None

\* the arguments a call was made with and those of the request it sent
CallArgs == Unwrap(in_flight').args
ForwardedArguments == Unwrap(Unwrap(in_flight').request).arguments

\* C25 as stated: every call forwarded by call_tool carries object
\* arguments: a JSON object is forwarded unchanged, and every non-object
\* value (null, boolean, number, string, array) is wrapped in a single-key
\* object holding that value.
C25_AsStated ==
    [][IsForwardStep =>
        /\ IsSome(ForwardedArguments)
        /\ IF CallArgs.type = "object"
           THEN Unwrap(ForwardedArguments) = CallArgs.fields
           ELSE /\ DOMAIN Unwrap(ForwardedArguments) = {"input"}
                /\ Unwrap(ForwardedArguments).input = CallArgs]_vars

\* C25: a JSON object is forwarded unchanged, null is forwarded as a
\* request without arguments, and every other non-object value (boolean,
\* number, string, array) is wrapped in the single-key object
\* {"input": value}.
C25_ArgumentsCoerced ==
    [][IsForwardStep =>
        CASE CallArgs.type = "object" ->
                 /\ IsSome(ForwardedArguments)
                 /\ Unwrap(ForwardedArguments) = CallArgs.fields
          [] CallArgs.type = "null" -> ForwardedArguments = None
          [] OTHER ->
                 /\ IsSome(ForwardedArguments)
                 /\ DOMAIN Unwrap(ForwardedArguments) = {"input"}
                 /\ Unwrap(ForwardedArguments).input = CallArgs]_vars

\* a call made with an array as arguments is with the server, the array
\* wrapped
C25_Witness ==
    /\ IsSome(in_flight)
    /\ Unwrap(in_flight).args.type = "array"
    /\ Unwrap(in_flight).request =
           Some([server |-> "a", name |-> "c",
                 arguments |-> Some([input |-> JsonArray(<<JsonNumber(1)>>)])])

\* a step in which call_tool returns for an answer of the server, the
\* answer and the value returned
IsAnswerStep ==
    /\ IsSome(in_flight) /\ in_flight' = None
    /\ IsSome(call_result') /\ Unwrap(Unwrap(call_result').answer).ok
Answer == Unwrap(Unwrap(call_result').answer).value
CallReturned == Unwrap(Unwrap(call_result').result)
Flagged == Answer.is_error = Some(TRUE)

\* what an item of the content stands for: the JSON a text parses to, its
\* text as a string if it does not parse, the item itself if it is no text
ItemValue(item) ==
    IF item.kind /= "text" THEN [type |-> item.kind]
    ELSE IF from_str_text(item.text).ok THEN from_str_text(item.text).value
    ELSE JsonString(item.text)
ItemValues(items) == [i \in 1..Len(items) |-> ItemValue(items[i])]
\* null for no value, the value for one, an array for several
AsOneValue(values) ==
    IF Len(values) = 0 THEN Value_Null
    ELSE IF Len(values) = 1 THEN values[1] ELSE JsonArray(values)

\* C26 as stated: a response with the error flag set makes call_tool return
\* a ToolExecution error carrying the returned content, never a success; a
\* response without the flag returns its content as a success: null for no
\* content, the single value for one item, an array for several.
C26_AsStated ==
    [][IsAnswerStep =>
        IF Flagged
        THEN /\ ~CallReturned.ok
             /\ CallReturned.error.kind = "ToolExecution"
             /\ CallReturned.error.reason.shown = Some(AsOneValue(ItemValues(Answer.content)))
        ELSE CallReturned = Success(AsOneValue(ItemValues(Answer.content)))]_vars

\* the text items of a content
TextItems(items) == SelectSeq(items, LAMBDA c : c.kind = "text")

\* C26: a response with the error flag set makes call_tool return a
\* ToolExecution error carrying the returned text content, never a success;
\* a response without the flag returns its text content as a success: null
\* when it has no text item, the single value for one text item, an array
\* for several; items that are not text are left out.
C26_ErrorFlagSurfaced ==
    [][IsAnswerStep =>
        IF Flagged
        THEN /\ ~CallReturned.ok
             /\ CallReturned.error.kind = "ToolExecution"
             /\ CallReturned.error.reason.shown =
                    Some(AsOneValue(ItemValues(TextItems(Answer.content))))
        ELSE CallReturned = Success(AsOneValue(ItemValues(TextItems(Answer.content))))]_vars

\* a server answered with the error flag set and a text, and call_tool
\* returned a ToolExecution error with that text
C26_Witness ==
    /\ IsSome(call_result)
    /\ Unwrap(call_result).via = "client"
    /\ Unwrap(call_result).answer =
           Some(Success(CallToolResult(<<TextContent("done")>>, Some(TRUE))))
    /\ Unwrap(call_result).result =
           Some(Failure(MCPError_ToolExecution("a", "c",
                   Reason("Tool returned error: ", Some(JsonString("done"))))))

\* every bridged tool that to_tool_functions returned has been registered
RegistrationDone == bridged = <<>> /\ WrappersHeld /= {}

\* the tools a connected server lists
ToolsOf(server) == {clients[server].tools[i] : i \in 1..Len(clients[server].tools)}

\* C27: when two different started servers each expose a tool of the same
\* base name, the two bridged tools have distinct names "{server}_{tool}",
\* and after registration in the merged registry each name is held by the
\* bridged tool of its own server, so that a call of it reaches that server.
C27_SameBaseNameBothCallable ==
    RegistrationDone =>
        \A s1, s2 \in DOMAIN clients :
            \A t \in ToolsOf(s1) \cap ToolsOf(s2) :
                s1 /= s2 =>
                    /\ MCPToolWrapper(s1, t).full_name /= MCPToolWrapper(s2, t).full_name
                    /\ MCPToolWrapper(s1, t).full_name \in DOMAIN tool_registry
                    /\ tool_registry[MCPToolWrapper(s1, t).full_name] = MCPToolWrapper(s1, t)

\* a step of ToolRegistry::register on the next bridged tool
IsRegisterStep == bridged /= <<>> /\ bridged' = Tail(bridged)

\* C28: tool names are unique across the merged local and remote tools for
\* every choice of server and tool names: registering a bridged tool adds a
\* name to the registry and never replaces a tool that is already there,
\* built-in or bridged.
C28_RegisteredNamesUnique ==
    [][IsRegisterStep =>
        /\ definition_name(Head(bridged)) \notin DOMAIN tool_registry
        /\ \A n \in DOMAIN tool_registry : tool_registry'[n] = tool_registry[n]]_vars

\* C29: the registry is the only owner of the connections: when it is torn
\* down every connection is destroyed, bridged tools or not, and no call of
\* a bridged tool made afterwards is forwarded to a server: it returns the
\* missing-connection error.
C29_TeardownClosesConnections ==
    [][/\ registry_state' = "dropped" => open_connections' = {}
       /\ registry_state = "dropped" => ~IsForwardStep]_vars

-----------------------------------------------------------------------------
(* Properties of the transport of a server.                                *)

\* the descriptor names a program to launch and its command is empty or
\* made of whitespace
EmptyCommand(config) ==
    \/ config.form = "Simple" /\ Trim(config.s) = <<>>
    \/ config.form = "Advanced" /\ config.transport = "Stdio" /\ Trim(config.command) = <<>>

\* C30: a server descriptor with an empty or whitespace-only command is
\* rejected as a configuration error at construction: no process is spawned
\* and no connection attempted for it, and its start does not end in
\* anything but that rejection.
C30_EmptyCommandRejected ==
    (IsSome(start_config) /\ EmptyCommand(Unwrap(start_config))) =>
        /\ start_attempts = <<>>
        /\ IsSome(start_outcome) =>
               /\ ~Unwrap(start_outcome).ok
               /\ Unwrap(start_outcome).error.kind \notin {"StartupFailed", "Sdk"}

-----------------------------------------------------------------------------
(* Further properties of the agentic loop                                  *)

\* the run ended because the loop ran out of iterations: every answer
\* carried tool calls and there were max_iterations of them
EndedOnExhaustion == AllToolCalls /\ Len(responses) = max_iterations

\* C31: a run returns the exhaustion sentinel if and only if it ended
\* because the iteration cap was reached; a run that ended on an answer
\* without tool calls (its text or the tool-output fallback) never returns
\* a value equal to the sentinel.
C31_SentinelIffExhausted ==
    (Returned /\ LastKind /= "error") =>
        ((ret = Ok(Sentinel)) <=> EndedOnExhaustion)

-----------------------------------------------------------------------------
(* Properties of the file tools                                            *)

\* the path of the latest call of a file tool matches a sensitive pattern
\* (compared in lower case, as ReadFileTool compares) and the call does not
\* carry confirm_sensitive = true
UnconfirmedSensitiveCall ==
    /\ IsSome(file_call)
    /\ IsSome(Unwrap(file_call).args.path)
    /\ IsSome(FirstMatch(to_lowercase(Unwrap(Unwrap(file_call).args.path)),
                         SENSITIVE_PATTERNS))
    /\ Unwrap(file_call).args.confirm_sensitive /= "true"

\* the latest call of a file tool returned a needs_confirmation result
NeedsConfirmation ==
    /\ IsSome(file_result)
    /\ Unwrap(file_result).ok
    /\ "needs_confirmation" \in DOMAIN Unwrap(file_result).value
    /\ Unwrap(file_result).value.needs_confirmation

\* C32: a call of read_file, write_file or list_dir whose path matches a
\* sensitive pattern and that does not carry confirm_sensitive = true is
\* refused with a needs_confirmation result and performs no operation on
\* the filesystem (the gate of bash is the subject of the shell tool's
\* properties).
C32_SensitiveGateOnEveryFileTool ==
    UnconfirmedSensitiveCall => (NeedsConfirmation /\ file_effect = None)

\* the ids of the tool results a request carries, in the order of the
\* request; the id <<it, k>> names the k-th call of the answer of
\* iteration it
ResultIds(req) == [k \in 1..Len(ToolMessages(req)) |-> ToolMessages(req)[k].tool_call_id]

\* id a was produced before id b, or is b
ProducedBefore(a, b) == a[1] < b[1] \/ (a[1] = b[1] /\ a[2] <= b[2])

\* C33: the completion call of iteration k >= 2 carries the tool results of
\* all iterations 1..k-1, in the order they were produced: a result of
\* every earlier iteration is in the request, and the results are in
\* production order.
C33_AllEarlierResultsAccompany ==
    pc = "awaiting" =>
        LET ids == ResultIds(Unwrap(request))
        IN  /\ \A it \in 1..iteration : \E k \in 1..Len(ids) : ids[k][1] = it
            /\ \A a, b \in 1..Len(ids) : a <= b => ProducedBefore(ids[a], ids[b])

\* the call is executed by its tool and the tool returns Ok
CallSucceeds(call) ==
    /\ from_str(call.arguments).ok
    /\ ToolRegistry_execute(call.name, from_str(call.arguments).value).ok

\* the outputs that executions that succeed produce, and those of calls
\* that fail, over the calls of the model
AllCalls == {[id |-> <<1, 1>>, name |-> c[1], arguments |-> c[2]] : c \in CallChoices}
SuccessfulOutputs == {execute_call(call).output : call \in {c \in AllCalls : CallSucceeds(c)}}
FailedOutputs == {execute_call(call).output : call \in {c \in AllCalls : ~CallSucceeds(c)}}

\* the run answered a blank final response with a tool output
AnsweredWithToolOutput ==
    /\ Returned
    /\ LastKind = "text"
    /\ IsBlankContent(Unwrap(last_response).content)
    /\ tool_execs > 0

\* C34: whenever the run answers a blank final response with a tool output,
\* that output was produced by a tool execution that succeeded, never by a
\* call that failed (unknown tool, unparsable arguments, tool error).
C34_FallbackIsSuccessfulOutput ==
    AnsweredWithToolOutput =>
        /\ Unwrap(ret).ok
        /\ Unwrap(ret).value \in SuccessfulOutputs
        /\ Unwrap(ret).value \notin FailedOutputs

-----------------------------------------------------------------------------
(* Further properties of the context manager                               *)

\* none of the recent_turns most recent turns held is masked
RecentKeptInFull(ts, recent) ==
    \A i \in (saturating_sub(Len(ts), recent) + 1)..Len(ts) : ~ts[i].is_masked

\* C35 as stated: in every state reachable by add_turn and apply_summary
\* calls, none of the recent_turns most recent held turns is masked.
C35_AsStated == RecentKeptInFull(turns, recent_turns)

\* the step applies a summary that covers one of the recent_turns most
\* recent turns held
CoversRecentTurn ==
    /\ IsSummaryStep
    /\ AppliedSummary.turns_covered \cap LatestIds(turns, recent_turns) /= {}

\* C35: add_turn, and apply_summary with a summary that covers none of the
\* recent_turns most recent held turns, keep the recent turns in full: if
\* none of them was masked before the call, none of the recent_turns most
\* recent held turns is masked after it.
C35_RecentTurnsKeptInFull ==
    [][(RecentKeptInFull(turns, recent_turns) /\ ~CoversRecentTurn)
          => RecentKeptInFull(turns', recent_turns')]_vars

\* C35 witness: a summary of old turns was applied, a turn older than the
\* recent window is masked and the recent ones are not
C35_Witness ==
    /\ summaries /= <<>>
    /\ Len(turns) > recent_turns
    /\ \E i \in 1..Len(turns) : turns[i].is_masked
    /\ RecentKeptInFull(turns, recent_turns)

\* str::contains on the strings of the context manager
StrContains(s, pat) ==
    \E i \in 1..(Len(s) - Len(pat) + 1) : SubSeq(s, i, i + Len(pat) - 1) = pat

\* the positions of the messages that hold the text
MessagesHolding(msgs, text) ==
    {k \in 1..Len(msgs) : IsSome(msgs[k].content) /\ StrContains(Unwrap(msgs[k].content), text)}

\* C36: the sequence get_messages returns holds the text of every applied
\* summary in exactly one message: a summary is sent once, not as a
\* rendered summary and again as a history turn.
C36_SummarySentOnce ==
    [][IsMessagesCall =>
          \A i \in 1..Len(summaries) :
              Cardinality(MessagesHolding(ReturnedMessages, summaries[i].summary)) = 1]_vars

-----------------------------------------------------------------------------
(* Properties of the connection map in use                                 *)

\* C37: once start_all has returned no step inserts into or removes from
\* the connection map, no startup task is left that could take the write
\* guard, and no caller waits for its read guard: calls that run at the
\* same time hold their read guards together.
C37_OnlyStartupWrites ==
    /\ [][mcp_pc = "returned" => clients' = clients]_vars
    /\ [](mcp_pc = "returned" => WritersToCome = {})
    /\ [](read_waiting = {})

\* C37 witness: start_all returned with a server connected, its count was
\* read, and two callers hold a read guard at the same time, one through
\* the registry and one through a bridged tool
C37_Witness ==
    /\ mcp_pc = "returned"
    /\ DOMAIN clients /= {}
    /\ server_count_seen = Some(Cardinality(DOMAIN clients))
    /\ DOMAIN read_guards = Callers
    /\ {read_guards[c] : c \in Callers} = {"registry", "bridge"}

-----------------------------------------------------------------------------
(* Properties of the confirmation round trip of the shell tool             *)

\* the command of the latest call, and whether it matches an always-blocked
\* pattern
CalledCommand == Unwrap(Unwrap(bash_call).command)
CalledBlocked == IsSome(bash_call) /\ IsSome(FirstMatch(CalledCommand, dangerous))

\* the confirmation flags the latest call carried
FlagsSet ==
    (IF Unwrap(bash_call).confirm_sensitive = "true" THEN 1 ELSE 0)
    + (IF Unwrap(bash_call).confirm_destructive = "true" THEN 1 ELSE 0)

\* the latest call was refused with needs_confirmation; it was executed
\* (the process was run, whatever came of it)
CallRefused == IsSome(bash_result) /\ Refused(Unwrap(bash_result))
CallExecuted ==
    /\ IsSome(bash_result)
    /\ Unwrap(bash_result).ok
    /\ DOMAIN Unwrap(bash_result).value \cap {"needs_confirmation", "blocked"} = {}

\* the flag the refusal asks for is one the call carried already
AsksForFlagAlreadySet ==
    IF Unwrap(bash_result).value.confirmation_type = "sensitive_file"
    THEN Unwrap(bash_call).confirm_sensitive = "true"
    ELSE Unwrap(bash_call).confirm_destructive = "true"

\* the refusals of the round trip so far: one before each flag that is
\* set, and the latest result if it is one
RefusalsSoFar == FlagsSet + (IF CallRefused THEN 1 ELSE 0)

\* C38: in a round trip that starts without flags and sets, at each
\* needs_confirmation refusal, the flag the refusal asks for, a command that
\* matches no always-blocked pattern is executed after at most two
\* refusals (a refusal never asks for a flag already set, there are never
\* more than two, and the round trip ends with the execution); a command
\* that matches a blocked pattern is never executed and no step of its
\* round trip spawns a process.
C38_RoundTripConverges ==
    /\ [](IsSome(bash_call) =>
            /\ RefusalsSoFar <= 2
            /\ CallRefused => (~CalledBlocked /\ ~AsksForFlagAlreadySet)
            /\ CalledBlocked => ~CallExecuted)
    /\ [][(IsSome(bash_call') /\ IsSome(FirstMatch(Unwrap(Unwrap(bash_call').command), dangerous)))
             => spawn_count' = spawn_count]_vars
    /\ ((IsSome(bash_call) /\ ~CalledBlocked) ~> (~CalledBlocked /\ CallExecuted))

\* C38 witness: a command that is sensitive and destructive was executed
\* with both flags set, that is after two refusals
C38_Witness ==
    /\ IsSome(bash_call)
    /\ ~CalledBlocked
    /\ FlagsSet = 2
    /\ CallExecuted
    /\ spawn_count = 1

\* what add_turn leaves in a manager that holds this state and uses the
\* strategy
AfterAddTurn(strat) ==
    LET ts == Append(turns, AddedTurn)
        total == total_tokens + AddedTurn.token_count
    IN  IF should_compress(ts, total, max_tokens, recent_turns)
        THEN compress(strat, ts, total, recent_turns)
        ELSE [turns |-> ts, total_tokens |-> total]

\* C39: a manager using Hybrid and one using SlidingWindow that hold the
\* same turns and total hold the same turns (content, tool calls, masked
\* flags, token_count) and the same total after add_turn of the same turn,
\* so they agree after every call of any sequence; the step leaves nothing
\* else changed, whether or not the total is still above 90%.
C39_HybridIsSlidingWindow ==
    [][(IsAddStep /\ strategy \in {"Hybrid", "SlidingWindow"}) =>
          /\ AfterAddTurn("Hybrid") = AfterAddTurn("SlidingWindow")
          /\ turns' = AfterAddTurn(strategy).turns
          /\ total_tokens' = AfterAddTurn(strategy).total_tokens
          /\ UNCHANGED <<summaries, strategy, max_tokens, recent_turns, ctx_system_prompt>>]_vars

\* C39 witness: a Hybrid manager has masked a turn and its total is still
\* above 90% of the budget, the case of the recommendation
C39_Witness ==
    /\ strategy = "Hybrid"
    /\ \E i \in 1..Len(turns) : turns[i].is_masked
    /\ summarization_recommended(total_tokens, max_tokens)

-----------------------------------------------------------------------------
(* Further properties of the transport of a server                         *)

\* the transport is stdio, with the first whitespace-separated token of
\* the command line as program and the remaining tokens as arguments
SplitOf(transport, line) ==
    LET tokens == split_whitespace(line)
    IN  /\ transport.type = "Stdio"
        /\ tokens /= <<>>
        /\ transport.program = tokens[1]
        /\ transport.args = Tail(tokens)

\* C40: detect_transport gives every descriptor one transport: a bare
\* string that starts with http:// or https:// is HTTP with that URL; any
\* other bare string is stdio with its first token as program and the
\* remaining tokens as arguments; an advanced stdio form with explicit
\* arguments keeps the command whole as program and uses those arguments,
\* and with no arguments it is split as the bare form is; an advanced HTTP
\* form is HTTP with its URL (env and headers are outside the model).
C40_DetectTransportUnambiguous ==
    IsSome(start_config) =>
        LET config == Unwrap(start_config)
            transport == Unwrap(start_transport_type)
        IN  IF config.form = "Simple"
            THEN IF starts_with(config.s, Str_http) \/ starts_with(config.s, Str_https)
                 THEN transport = TransportType_HTTP(config.s)
                 ELSE SplitOf(transport, config.s)
            ELSE IF config.transport = "HTTP"
                 THEN transport = TransportType_HTTP(config.url)
            ELSE IF config.args /= <<>>
                 THEN transport = TransportType_Stdio(config.command, config.args)
                 ELSE SplitOf(transport, config.command)

=============================================================================
